---- MODULE Spec2Model ----
(***************************************************************************)
(* Model of the lamp controller of esp_code/src/main.cpp: the output       *)
(* mapper (applyOutput), the remote message handler (onWSMsg), the         *)
(* schedule store (handleRoutineSync, handleAlarmSync, handleFullSync),    *)
(* the schedule engine (checkSchedule), the override (handleTripleClick)   *)
(* and the manual inputs (handleRotaryEncoder, handleButtonClicks).        *)
(*                                                                         *)
(* The firmware runs one loop() on one thread, so every handler is one     *)
(* atomic action.  An absent or ill-typed JSON field is the empty          *)
(* sequence <<>>, a present one the one-element sequence <<v>>.            *)
(***************************************************************************)
EXTENDS Integers, Sequences, FiniteSets, TLC

VARIABLES
    \* LampState and the two PWM channels last written by ledcWrite
    isOn, brightness, mode, ch0, ch1,
    \* schedule store: routines[0..routine_count-1], alarms[0..alarm_count-1]
    routines, alarms,
    \* routine / alarm tracking
    routineActive, activeRoutineId, lastRoutineMinute,
    alarmActive, activeAlarmId, lastAlarmMinute,
    \* suppression windows
    routineSuppressed, suppressedRoutine, alarmSuppressed, suppressedAlarm,
    \* sun sync
    sunSyncActive, sunSyncDisabledByHardware,
    \* button decoder (handleButtonClicks statics and globals) and millis()
    clickCount, firstClickTime, lastClickReleaseTime, prevPressed, lastChange, now,
    \* the times of the releases the decoder accepted since the last gesture
    \* it resolved (history)
    accepted,
    \* what the last handler run did: its kind, whether it called applyOutput,
    \* whether it called sendStateUpdate, the sync responses it sent, the
    \* Serial lines it printed and the other frames it broadcast
    lastOp, outApplied, outPublished, outResponses, outLog, outEvents,
    \* the arguments and the result of the last pure-function evaluation
    args, ret,
    \* a counter of the run: the handler runs so far (bounded runs), the
    \* minute of the day the wall clock has reached (the day's run), 1 + the
    \* id of the routine whose override is followed (the override's run), or
    \* what became of the last triple click's group (the late release's run)
    opsDone

lampVars  == <<isOn, brightness, mode, ch0, ch1>>
storeVars == <<routines, alarms>>
trackVars == <<routineActive, activeRoutineId, lastRoutineMinute,
               alarmActive, activeAlarmId, lastAlarmMinute>>
suppVars  == <<routineSuppressed, suppressedRoutine, alarmSuppressed, suppressedAlarm>>
sunVars   == <<sunSyncActive, sunSyncDisabledByHardware>>
clickVars == <<clickCount, firstClickTime, lastClickReleaseTime, prevPressed, lastChange, now,
               accepted>>
outVars   == <<lastOp, outApplied, outPublished, outResponses, outLog, outEvents>>
fnVars    == <<args, ret>>
vars == <<lampVars, storeVars, trackVars, suppVars, sunVars, clickVars, outVars,
          fnVars, opsDone>>

-----------------------------------------------------------------------------
(* Program constants *)

MAX_ROUTINES == 10
MAX_ALARMS == 5
MODE_WARM == 0
MODE_WHITE == 1
MODE_BOTH == 2
DEBOUNCE_MS == 35
MULTI_CLICK_WINDOW_MS == 600
PWM_OFF == 15
MAX_BRIGHTNESS == 15
MAX_ID == 32767
MAX_DURATION == 240

Modes == {MODE_WARM, MODE_WHITE, MODE_BOTH}

Max(a, b) == IF a >= b THEN a ELSE b

\* Arduino's constrain(amt, low, high)
constrain(amt, low, high) == IF amt < low THEN low ELSE IF amt > high THEN high ELSE amt

routine_count == Len(routines)
alarm_count == Len(alarms)

\* Routine suppressedRoutine = {} and Alarm suppressedAlarm = {}
ZeroRoutine == [id |-> 0, enabled |-> FALSE, start_hour |-> 0, start_minute |-> 0,
                end_hour |-> 0, end_minute |-> 0, brightness |-> 0, mode |-> 0]
ZeroAlarm == [id |-> 0, enabled |-> FALSE, wake_hour |-> 0, wake_minute |-> 0,
              start_hour |-> 0, start_minute |-> 0, duration_minutes |-> 0]

-----------------------------------------------------------------------------
(* Output mapper *)

\* applyOutput without the floor max(1, brightness)
applyOutput_NoFloor(on, b, m) ==
    IF ~on THEN <<PWM_OFF, PWM_OFF>>
    ELSE LET invertedBrightness == MAX_BRIGHTNESS - b
         IN  IF m = MODE_WARM THEN <<invertedBrightness, PWM_OFF>>
             ELSE IF m = MODE_WHITE THEN <<PWM_OFF, invertedBrightness>>
             ELSE <<invertedBrightness, invertedBrightness>>

\* applyOutput(): the pair (ch0, ch1) it hands to ledcWrite(0,.) and ledcWrite(1,.)
applyOutput(on, b, m) ==
    IF ~on THEN <<PWM_OFF, PWM_OFF>>
    ELSE LET safeBrightness == Max(1, b)
             invertedBrightness == MAX_BRIGHTNESS - safeBrightness
         IN  IF m = MODE_WARM THEN <<invertedBrightness, PWM_OFF>>
             ELSE IF m = MODE_WHITE THEN <<PWM_OFF, invertedBrightness>>
             ELSE <<invertedBrightness, invertedBrightness>>

\* ledcWrite(0, duty[1]); ledcWrite(1, duty[2])
ledcWrite(duty) == ch0' = duty[1] /\ ch1' = duty[2]

\* isManualControlLocked()
isManualControlLocked == routineActive \/ alarmActive \/ sunSyncActive

\* a handler run that prints nothing, sends nothing and writes no channel
NoOutput(op) ==
    /\ lastOp' = op
    /\ outApplied' = FALSE
    /\ outPublished' = FALSE
    /\ outResponses' = <<>>
    /\ outLog' = {}
    /\ outEvents' = {}

\* the outputs of one handler run
Output(op, applied, published, responses, log, events) ==
    /\ lastOp' = op
    /\ outApplied' = applied
    /\ outPublished' = published
    /\ outResponses' = responses
    /\ outLog' = log
    /\ outEvents' = events

\* the globals' initialisers, and setup()'s applyOutput()
BootLamp ==
    /\ isOn = TRUE /\ brightness = 0 /\ mode = MODE_BOTH
    /\ ch0 = applyOutput(TRUE, 0, MODE_BOTH)[1]
    /\ ch1 = applyOutput(TRUE, 0, MODE_BOTH)[2]
BootStore == routines = <<>> /\ alarms = <<>>
BootTrack ==
    /\ routineActive = FALSE /\ activeRoutineId = -1 /\ lastRoutineMinute = -1
    /\ alarmActive = FALSE /\ activeAlarmId = -1 /\ lastAlarmMinute = -1
BootSupp ==
    /\ routineSuppressed = FALSE /\ suppressedRoutine = ZeroRoutine
    /\ alarmSuppressed = FALSE /\ suppressedAlarm = ZeroAlarm
BootSun == sunSyncActive = FALSE /\ sunSyncDisabledByHardware = FALSE
BootClicks ==
    /\ clickCount = 0 /\ firstClickTime = 0 /\ lastClickReleaseTime = 0
    /\ prevPressed = FALSE /\ lastChange = 0 /\ now = 0
    /\ accepted = <<>>
BootOut ==
    /\ lastOp = "setup" /\ outApplied = TRUE /\ outPublished = FALSE
    /\ outResponses = <<>> /\ outLog = {} /\ outEvents = {}
BootFn == args = <<>> /\ ret = <<>>

\* state after setup()
Boot ==
    /\ BootLamp /\ BootStore /\ BootTrack /\ BootSupp /\ BootSun /\ BootClicks
    /\ BootOut /\ BootFn /\ opsDone = 0

-----------------------------------------------------------------------------
(* The output mapper on its own: every LampState, over any previous duty *)

InitOutput ==
    /\ isOn \in BOOLEAN /\ brightness \in 0..MAX_BRIGHTNESS /\ mode \in Modes
    /\ ch0 \in {0, PWM_OFF} /\ ch1 \in {0, PWM_OFF}
    /\ BootStore /\ BootTrack /\ BootSupp /\ BootSun /\ BootClicks /\ BootFn
    /\ lastOp = "init" /\ outApplied = FALSE /\ outPublished = FALSE
    /\ outResponses = <<>> /\ outLog = {} /\ outEvents = {}
    /\ opsDone = 0

ApplyOutputStep ==
    /\ lastOp = "init"
    /\ ledcWrite(applyOutput(isOn, brightness, mode))
    /\ Output("applyOutput", TRUE, FALSE, <<>>, {}, {})
    /\ UNCHANGED <<isOn, brightness, mode, storeVars, trackVars, suppVars, sunVars,
                   clickVars, fnVars, opsDone>>

SpecOutput == InitOutput /\ [][ApplyOutputStep]_vars

\* C1: applyOutput writes (15, 15) when the lamp is off; when on, with
\* inverted = 15 - max(1, brightness), it writes (inverted, 15) for WARM,
\* (15, inverted) for WHITE and (inverted, inverted) for BOTH, whatever the
\* channels held before.
C1_OutputMapping ==
    lastOp = "applyOutput" =>
        LET inverted == 15 - (IF brightness < 1 THEN 1 ELSE brightness)
        IN  /\ ~isOn => ch0 = 15 /\ ch1 = 15
            /\ (isOn /\ mode = 0) => ch0 = inverted /\ ch1 = 15
            /\ (isOn /\ mode = 1) => ch0 = 15 /\ ch1 = inverted
            /\ (isOn /\ mode = 2) => ch0 = inverted /\ ch1 = inverted

\* the floor case: the lamp is on at brightness 0 and the warm channel got 14
C1_Witness ==
    lastOp = "applyOutput" /\ isOn /\ brightness = 0 /\ mode = 0 /\ ch0 = 14 /\ ch1 = 15

-----------------------------------------------------------------------------
(* Time-range predicate *)

\* isWithinTimeRange with the wrap test taken as end >= start
isWithinTimeRange_WrapOnlyBelow(startHour, startMinute, endHour, endMinute, currentTime) ==
    LET startTime == startHour * 60 + startMinute
        endTime == endHour * 60 + endMinute
    IN  IF endTime >= startTime
        THEN currentTime >= startTime /\ currentTime <= endTime
        ELSE currentTime >= startTime \/ currentTime <= endTime

\* isWithinTimeRange(startHour, startMinute, endHour, endMinute, currentTime)
isWithinTimeRange(startHour, startMinute, endHour, endMinute, currentTime) ==
    LET startTime == startHour * 60 + startMinute
        endTime == endHour * 60 + endMinute
    IN  IF endTime > startTime
        THEN currentTime >= startTime /\ currentTime <= endTime
        ELSE currentTime >= startTime \/ currentTime <= endTime

\* the routine scan's own window test in checkSchedule (inTimeRange)
routineInTimeRange(r, currentTime) ==
    LET startTime == r.start_hour * 60 + r.start_minute
        endTime == r.end_hour * 60 + r.end_minute
    IN  IF endTime > startTime
        THEN currentTime >= startTime /\ currentTime <= endTime
        ELSE currentTime >= startTime \/ currentTime <= endTime

\* the alarm scan's window test in checkSchedule: [start, wake], never wrapping
alarmInWindow(a, currentTime) ==
    LET startTime == a.start_hour * 60 + a.start_minute
        wakeTime == a.wake_hour * 60 + a.wake_minute
    IN  currentTime >= startTime /\ currentTime <= wakeTime

\* sampled hours and minutes of the day, and clock readings around them
SampleHours == {0, 6, 9, 17, 22, 23}
SampleMinutes == {0, 30, 59}
SampleTimes == {h * 60 + m : h \in SampleHours, m \in SampleMinutes}
SampleNow == {t + d : t \in SampleTimes, d \in {-1, 0, 1}} \cap (0..1439)

InitTimeRange ==
    /\ BootLamp /\ BootStore /\ BootTrack /\ BootSupp /\ BootSun /\ BootClicks
    /\ BootOut /\ opsDone = 0
    /\ args \in SampleHours \X SampleMinutes \X SampleHours \X SampleMinutes \X SampleNow
    /\ ret = <<>>

\* one evaluation of isWithinTimeRange and of the routine scan's test on the
\* same window and clock reading
EvalTimeRange ==
    /\ lastOp = "setup"
    /\ ret' = <<isWithinTimeRange(args[1], args[2], args[3], args[4], args[5]),
                routineInTimeRange([ZeroRoutine EXCEPT !.start_hour = args[1],
                                       !.start_minute = args[2], !.end_hour = args[3],
                                       !.end_minute = args[4]], args[5])>>
    /\ NoOutput("isWithinTimeRange")
    /\ UNCHANGED <<lampVars, storeVars, trackVars, suppVars, sunVars, clickVars,
                   args, opsDone>>

SpecTimeRange == InitTimeRange /\ [][EvalTimeRange]_vars

\* C9: over minutes 0..1439 the time-range predicate is start <= now <= end
\* when end > start, and now >= start or now <= end otherwise (the window
\* wraps midnight), both bounds inclusive; the routine scan of the tick
\* decides the same.
C9_TimeRange ==
    lastOp = "isWithinTimeRange" =>
        LET start == args[1] * 60 + args[2]
            end == args[3] * 60 + args[4]
            cur == args[5]
            expected == IF end > start THEN start <= cur /\ cur <= end
                        ELSE cur >= start \/ cur <= end
        IN  ret[1] = expected /\ ret[2] = expected

\* a wrapping window 22:00-06:00 read at its inclusive end 06:00
C9_Witness ==
    /\ lastOp = "isWithinTimeRange"
    /\ args = <<22, 0, 6, 0, 360>>
    /\ ret = <<TRUE, TRUE>>

-----------------------------------------------------------------------------
(* Schedule store: validation *)

\* readIntField: the key holds an integer inside [minValue, maxValue]
readIntField(field, minValue, maxValue) ==
    /\ Len(field) = 1
    /\ ~(field[1] < minValue \/ field[1] > maxValue)

\* readBoolField: the key holds a boolean
readBoolField(field) == Len(field) = 1

\* the JSON object of a routine or an alarm with every key absent (also what a
\* non-object array element converts to)
NullRoutineObj == [id |-> <<>>, enabled |-> <<>>, start_hour |-> <<>>, start_minute |-> <<>>,
                   end_hour |-> <<>>, end_minute |-> <<>>, brightness |-> <<>>, mode |-> <<>>]
NullAlarmObj == [id |-> <<>>, enabled |-> <<>>, wake_hour |-> <<>>, wake_minute |-> <<>>,
                 start_hour |-> <<>>, start_minute |-> <<>>, duration_minutes |-> <<>>]

\* the field checks of a routine upsert, in order: the message of the first
\* one that fails, "" when none does
routineFieldError(data) ==
    IF ~readIntField(data.id, 0, MAX_ID) THEN "Invalid field: id"
    ELSE IF ~readBoolField(data.enabled) THEN "Invalid field: enabled"
    ELSE IF \/ ~readIntField(data.start_hour, 0, 23)
            \/ ~readIntField(data.start_minute, 0, 59)
            \/ ~readIntField(data.end_hour, 0, 23)
            \/ ~readIntField(data.end_minute, 0, 59) THEN "Invalid start/end time"
    ELSE IF ~readIntField(data.brightness, 0, MAX_BRIGHTNESS) THEN "Invalid field: brightness"
    ELSE IF ~readIntField(data.mode, 0, 2) THEN "Invalid field: mode"
    ELSE ""

\* the field checks of an alarm upsert, in order
alarmFieldError(data) ==
    IF ~readIntField(data.id, 0, MAX_ID) THEN "Invalid field: id"
    ELSE IF ~readBoolField(data.enabled) THEN "Invalid field: enabled"
    ELSE IF \/ ~readIntField(data.wake_hour, 0, 23)
            \/ ~readIntField(data.wake_minute, 0, 59)
            \/ ~readIntField(data.start_hour, 0, 23)
            \/ ~readIntField(data.start_minute, 0, 59) THEN "Invalid start/wake time"
    ELSE IF ~readIntField(data.duration_minutes, 1, MAX_DURATION)
         THEN "Invalid field: duration_minutes"
    ELSE ""

\* the record the handlers write from a validated routine object
routineFromObj(data) ==
    [id |-> data.id[1], enabled |-> data.enabled[1],
     start_hour |-> data.start_hour[1], start_minute |-> data.start_minute[1],
     end_hour |-> data.end_hour[1], end_minute |-> data.end_minute[1],
     brightness |-> data.brightness[1], mode |-> data.mode[1]]

\* the record the handlers write from a validated alarm object
alarmFromObj(data) ==
    [id |-> data.id[1], enabled |-> data.enabled[1],
     wake_hour |-> data.wake_hour[1], wake_minute |-> data.wake_minute[1],
     start_hour |-> data.start_hour[1], start_minute |-> data.start_minute[1],
     duration_minutes |-> data.duration_minutes[1]]

\* sendSyncResponse(type, success, message): the frame it broadcasts
syncResponse(type, success, message) ==
    [type |-> type, success |-> success, message |-> message]

\* index of the first entry of store s with this id, 0 when there is none
\* (the C loops' index + 1)
indexOfId(s, id) ==
    IF \E i \in 1..Len(s) : s[i].id = id
    THEN CHOOSE i \in 1..Len(s) : s[i].id = id /\ \A j \in 1..(i - 1) : s[j].id # id
    ELSE 0

\* a delete that moves the last entry into the freed slot
removeAt_SwapLast(s, i) == [j \in 1..(Len(s) - 1) |-> IF j = i THEN s[Len(s)] ELSE s[j]]

\* the delete loops: entry i removed, the later ones shifted down by one
removeAt(s, i) == [j \in 1..(Len(s) - 1) |-> IF j < i THEN s[j] ELSE s[j + 1]]

-----------------------------------------------------------------------------
(* Schedule store: upsert and delete *)

\* the find-or-append of an upsert with the capacity test taken as <=
upsertInto_OffByOne(s, entry, capacity) ==
    LET index == indexOfId(s, entry.id)
    IN  IF index # 0 THEN [store |-> [s EXCEPT ![index] = entry], ok |-> TRUE]
        ELSE IF Len(s) <= capacity THEN [store |-> Append(s, entry), ok |-> TRUE]
        ELSE [store |-> s, ok |-> FALSE]

\* the find-or-append of an upsert refusing everything once the store is full
upsertInto_FullRefusesAll(s, entry, capacity) ==
    LET index == indexOfId(s, entry.id)
    IN  IF Len(s) >= capacity THEN [store |-> s, ok |-> FALSE]
        ELSE IF index # 0 THEN [store |-> [s EXCEPT ![index] = entry], ok |-> TRUE]
        ELSE [store |-> Append(s, entry), ok |-> TRUE]

\* the find-or-append of an upsert: overwrite the entry with this id, else
\* append while count < capacity, else fail
upsertInto(s, entry, capacity) ==
    LET index == indexOfId(s, entry.id)
    IN  IF index # 0 THEN [store |-> [s EXCEPT ![index] = entry], ok |-> TRUE]
        ELSE IF Len(s) < capacity THEN [store |-> Append(s, entry), ok |-> TRUE]
        ELSE [store |-> s, ok |-> FALSE]

\* handleRoutineSync(doc): the store and the response it leaves
routineSyncResult(doc) ==
    LET T == "routine_sync_response"
        keep(msg) == [store |-> routines, response |-> syncResponse(T, FALSE, msg)]
    IN  IF Len(doc.action) = 0 THEN keep("Missing action for routine sync")
        ELSE IF doc.action[1] = "upsert" THEN
            IF Len(doc.data) = 0 THEN keep("Invalid routine payload (data missing)")
            ELSE IF routineFieldError(doc.data[1]) # "" THEN keep(routineFieldError(doc.data[1]))
            ELSE LET u == upsertInto(routines, routineFromObj(doc.data[1]), MAX_ROUTINES)
                 IN  IF u.ok
                     THEN [store |-> u.store,
                           response |-> syncResponse(T, TRUE, "Routine synced successfully")]
                     ELSE keep("Storage full")
        ELSE IF doc.action[1] = "delete" THEN
            IF ~readIntField(doc.id, 0, MAX_ID) THEN keep("Invalid field: id")
            ELSE LET i == indexOfId(routines, doc.id[1])
                 IN  IF i # 0
                     THEN [store |-> removeAt(routines, i),
                           response |-> syncResponse(T, TRUE, "Routine deleted")]
                     ELSE keep("Routine not found")
        ELSE keep("Unknown routine action")

\* handleAlarmSync(doc): the store and the response it leaves
alarmSyncResult(doc) ==
    LET T == "alarm_sync_response"
        keep(msg) == [store |-> alarms, response |-> syncResponse(T, FALSE, msg)]
    IN  IF Len(doc.action) = 0 THEN keep("Missing action for alarm sync")
        ELSE IF doc.action[1] = "upsert" THEN
            IF Len(doc.data) = 0 THEN keep("Invalid alarm payload (data missing)")
            ELSE IF alarmFieldError(doc.data[1]) # "" THEN keep(alarmFieldError(doc.data[1]))
            ELSE LET u == upsertInto(alarms, alarmFromObj(doc.data[1]), MAX_ALARMS)
                 IN  IF u.ok
                     THEN [store |-> u.store,
                           response |-> syncResponse(T, TRUE, "Alarm synced successfully")]
                     ELSE keep("Storage full")
        ELSE IF doc.action[1] = "delete" THEN
            IF ~readIntField(doc.id, 0, MAX_ID) THEN keep("Invalid field: id")
            ELSE LET i == indexOfId(alarms, doc.id[1])
                 IN  IF i # 0
                     THEN [store |-> removeAt(alarms, i),
                           response |-> syncResponse(T, TRUE, "Alarm deleted")]
                     ELSE keep("Alarm not found")
        ELSE keep("Unknown alarm action")

\* onWSMsg with type "routine_sync"
handleRoutineSync(doc) ==
    /\ routines' = routineSyncResult(doc).store
    /\ Output("routine_sync", FALSE, FALSE, <<routineSyncResult(doc).response>>, {}, {})
    /\ args' = <<doc>>
    /\ UNCHANGED <<lampVars, alarms, trackVars, suppVars, sunVars, clickVars, ret>>

\* onWSMsg with type "alarm_sync"
handleAlarmSync(doc) ==
    /\ alarms' = alarmSyncResult(doc).store
    /\ Output("alarm_sync", FALSE, FALSE, <<alarmSyncResult(doc).response>>, {}, {})
    /\ args' = <<doc>>
    /\ UNCHANGED <<lampVars, routines, trackVars, suppVars, sunVars, clickVars, ret>>

-----------------------------------------------------------------------------
(* Schedule store: full sync *)

\* the routine loop of handleFullSync from item i on: stop when the store is
\* full, count and skip an invalid item, append a valid one
RECURSIVE fullSyncRoutines(_, _, _, _)
fullSyncRoutines(items, i, stored, invalid) ==
    IF i > Len(items) THEN [store |-> stored, invalid |-> invalid]
    ELSE IF Len(stored) >= MAX_ROUTINES THEN [store |-> stored, invalid |-> invalid]
    ELSE IF routineFieldError(items[i]) # ""
         THEN fullSyncRoutines(items, i + 1, stored, invalid + 1)
    ELSE fullSyncRoutines(items, i + 1, Append(stored, routineFromObj(items[i])), invalid)

\* the alarm loop of handleFullSync from item i on
RECURSIVE fullSyncAlarms(_, _, _, _)
fullSyncAlarms(items, i, stored, invalid) ==
    IF i > Len(items) THEN [store |-> stored, invalid |-> invalid]
    ELSE IF Len(stored) >= MAX_ALARMS THEN [store |-> stored, invalid |-> invalid]
    ELSE IF alarmFieldError(items[i]) # ""
         THEN fullSyncAlarms(items, i + 1, stored, invalid + 1)
    ELSE fullSyncAlarms(items, i + 1, Append(stored, alarmFromObj(items[i])), invalid)

\* the reply of handleFullSync that counts no skipped item
fullSyncResponse_NoCount(invalidRoutineCount, invalidAlarmCount) ==
    syncResponse("full_sync_response", TRUE, "Full sync complete")

\* the reply of handleFullSync
fullSyncResponse(invalidRoutineCount, invalidAlarmCount) ==
    LET success == invalidRoutineCount = 0 /\ invalidAlarmCount = 0
        r == IF invalidRoutineCount > 0
             THEN ToString(invalidRoutineCount) \o " routine(s) skipped" ELSE ""
        sep == IF invalidRoutineCount > 0 /\ invalidAlarmCount > 0 THEN ", " ELSE ""
        a == IF invalidAlarmCount > 0
             THEN ToString(invalidAlarmCount) \o " alarm(s) skipped" ELSE ""
    IN  syncResponse("full_sync_response", success,
                     IF success THEN "Full sync complete"
                     ELSE "Full sync partial: " \o r \o sep \o a)

\* handleFullSync(doc): both counts are reset, then each of "routines" and
\* "alarms" is read when it is an array, counted as one invalid item when it
\* is present and no array, and left alone when absent
fullSyncResult(doc) ==
    LET r == IF doc.routines.kind = "array" THEN fullSyncRoutines(doc.routines.items, 1, <<>>, 0)
             ELSE IF doc.routines.kind = "other" THEN [store |-> <<>>, invalid |-> 1]
             ELSE [store |-> <<>>, invalid |-> 0]
        a == IF doc.alarms.kind = "array" THEN fullSyncAlarms(doc.alarms.items, 1, <<>>, 0)
             ELSE IF doc.alarms.kind = "other" THEN [store |-> <<>>, invalid |-> 1]
             ELSE [store |-> <<>>, invalid |-> 0]
    IN  [routines |-> r.store, alarms |-> a.store,
         response |-> fullSyncResponse(r.invalid, a.invalid)]

\* onWSMsg with type "full_sync"
handleFullSync(doc) ==
    /\ routines' = fullSyncResult(doc).routines
    /\ alarms' = fullSyncResult(doc).alarms
    /\ Output("full_sync", FALSE, FALSE, <<fullSyncResult(doc).response>>, {}, {})
    /\ args' = <<doc>>
    /\ UNCHANGED <<lampVars, trackVars, suppVars, sunVars, clickVars, ret>>

-----------------------------------------------------------------------------
(* The store on its own: sync messages against an empty, a nearly full and
   a full store *)

MaxOps == 2

\* a well-formed routine object with this id; v picks one of two contents
GoodRoutineObj(id, v) ==
    IF v = 1
    THEN [id |-> <<id>>, enabled |-> <<TRUE>>, start_hour |-> <<9>>, start_minute |-> <<0>>,
          end_hour |-> <<17>>, end_minute |-> <<0>>, brightness |-> <<7>>, mode |-> <<0>>]
    ELSE [id |-> <<id>>, enabled |-> <<FALSE>>, start_hour |-> <<22>>, start_minute |-> <<30>>,
          end_hour |-> <<6>>, end_minute |-> <<0>>, brightness |-> <<15>>, mode |-> <<2>>]

\* a well-formed alarm object with this id
GoodAlarmObj(id, v) ==
    IF v = 1
    THEN [id |-> <<id>>, enabled |-> <<TRUE>>, wake_hour |-> <<6>>, wake_minute |-> <<30>>,
          start_hour |-> <<6>>, start_minute |-> <<0>>, duration_minutes |-> <<30>>]
    ELSE [id |-> <<id>>, enabled |-> <<FALSE>>, wake_hour |-> <<23>>, wake_minute |-> <<59>>,
          start_hour |-> <<20>>, start_minute |-> <<0>>, duration_minutes |-> <<240>>]

\* routine objects one field of which is missing, ill-typed or out of range
BadRoutineObjs ==
    { NullRoutineObj,
      [GoodRoutineObj(0, 1) EXCEPT !.id = <<32768>>],
      [GoodRoutineObj(0, 1) EXCEPT !.id = <<-1>>],
      [GoodRoutineObj(0, 1) EXCEPT !.enabled = <<>>],
      [GoodRoutineObj(0, 1) EXCEPT !.start_hour = <<24>>],
      [GoodRoutineObj(0, 1) EXCEPT !.end_minute = <<60>>],
      [GoodRoutineObj(0, 1) EXCEPT !.brightness = <<16>>],
      [GoodRoutineObj(0, 1) EXCEPT !.mode = <<3>>] }

BadAlarmObjs ==
    { NullAlarmObj,
      [GoodAlarmObj(0, 1) EXCEPT !.id = <<32768>>],
      [GoodAlarmObj(0, 1) EXCEPT !.enabled = <<>>],
      [GoodAlarmObj(0, 1) EXCEPT !.wake_minute = <<60>>],
      [GoodAlarmObj(0, 1) EXCEPT !.duration_minutes = <<0>>],
      [GoodAlarmObj(0, 1) EXCEPT !.duration_minutes = <<241>>] }

BadRoutineObj == [GoodRoutineObj(0, 1) EXCEPT !.brightness = <<16>>]
BadAlarmObj == [GoodAlarmObj(0, 1) EXCEPT !.duration_minutes = <<0>>]

UpsertDoc(obj) == [action |-> <<"upsert">>, data |-> <<obj>>, id |-> <<>>]
DeleteDoc(idField) == [action |-> <<"delete">>, data |-> <<>>, id |-> idField]
MalformedDocs ==
    { [action |-> <<>>, data |-> <<>>, id |-> <<>>],
      [action |-> <<"rename">>, data |-> <<>>, id |-> <<0>>],
      [action |-> <<"upsert">>, data |-> <<>>, id |-> <<0>>] }

\* ids at both ends of a full store, one past it, and the largest id
StoreRoutineIds == {0, MAX_ROUTINES - 1, MAX_ROUTINES, MAX_ID}
StoreAlarmIds == {0, MAX_ALARMS - 1, MAX_ALARMS, MAX_ID}

StoreRoutineDocs ==
    {UpsertDoc(GoodRoutineObj(id, v)) : id \in StoreRoutineIds, v \in {1, 2}}
    \cup {UpsertDoc(o) : o \in BadRoutineObjs}
    \cup {DeleteDoc(<<id>>) : id \in StoreRoutineIds \cup {-1}}
    \cup {DeleteDoc(<<>>)}
    \cup MalformedDocs

StoreAlarmDocs ==
    {UpsertDoc(GoodAlarmObj(id, v)) : id \in StoreAlarmIds, v \in {1, 2}}
    \cup {UpsertDoc(o) : o \in BadAlarmObjs}
    \cup {DeleteDoc(<<id>>) : id \in StoreAlarmIds \cup {-1}}
    \cup {DeleteDoc(<<>>)}
    \cup MalformedDocs

\* n well-formed objects with ids first, first + 1, ...
RoutineRun(first, n) == [i \in 1..n |-> GoodRoutineObj(first + i - 1, 1)]
AlarmRun(first, n) == [i \in 1..n |-> GoodAlarmObj(first + i - 1, 1)]

Array(items) == [kind |-> "array", items |-> items]
Absent == [kind |-> "absent", items |-> <<>>]
NotArray == [kind |-> "other", items |-> <<>>]

\* routine batches: empty, mixed valid and invalid, reordered, a repeated id,
\* and batches that reach or pass the capacity
StoreRoutineBatches ==
    { Array(<<>>), NotArray,
      Array(<<GoodRoutineObj(1, 1), GoodRoutineObj(0, 2)>>),
      Array(<<GoodRoutineObj(0, 1), GoodRoutineObj(0, 2)>>),
      Array(<<BadRoutineObj, NullRoutineObj>>),
      Array(<<BadRoutineObj, GoodRoutineObj(3, 1), BadRoutineObj, GoodRoutineObj(1, 2),
              GoodRoutineObj(2, 1)>>),
      Array(RoutineRun(0, MAX_ROUTINES - 1) \o <<BadRoutineObj, BadRoutineObj>>),
      Array(RoutineRun(0, MAX_ROUTINES)),
      Array(<<BadRoutineObj>> \o RoutineRun(0, MAX_ROUTINES)),
      Array(RoutineRun(0, MAX_ROUTINES) \o <<BadRoutineObj>>),
      Array(RoutineRun(0, MAX_ROUTINES + 1)) }

StoreAlarmBatches ==
    { Array(<<>>), NotArray,
      Array(<<GoodAlarmObj(1, 1), GoodAlarmObj(0, 2)>>),
      Array(<<BadAlarmObj, GoodAlarmObj(2, 1), NullAlarmObj>>),
      Array(AlarmRun(0, MAX_ALARMS)),
      Array(AlarmRun(0, MAX_ALARMS) \o <<BadAlarmObj>>),
      Array(AlarmRun(0, MAX_ALARMS + 1)) }

StoreFullSyncDocs ==
    {[routines |-> rb, alarms |-> Absent] : rb \in StoreRoutineBatches}
    \cup {[routines |-> Absent, alarms |-> ab] : ab \in StoreAlarmBatches}
    \cup {[routines |-> rb, alarms |-> ab] :
            rb \in {Array(<<GoodRoutineObj(1, 1), GoodRoutineObj(0, 2)>>),
                    Array(<<BadRoutineObj, NullRoutineObj>>),
                    Array(RoutineRun(0, MAX_ROUTINES) \o <<BadRoutineObj>>)},
            ab \in {Array(<<GoodAlarmObj(1, 1), GoodAlarmObj(0, 2)>>),
                    Array(<<BadAlarmObj, GoodAlarmObj(2, 1), NullAlarmObj>>)}}
    \cup {[routines |-> Absent, alarms |-> Absent]}

\* the store a full sync of n routines and m alarms leaves
SyncedRoutines(n) == [i \in 1..n |-> routineFromObj(RoutineRun(0, n)[i])]
SyncedAlarms(m) == [i \in 1..m |-> alarmFromObj(AlarmRun(0, m)[i])]

InitStore ==
    /\ BootLamp /\ BootTrack /\ BootSupp /\ BootSun /\ BootClicks /\ BootOut /\ BootFn
    /\ opsDone = 0
    /\ \E fill \in {<<0, 0>>, <<MAX_ROUTINES - 1, MAX_ALARMS - 1>>, <<MAX_ROUTINES, MAX_ALARMS>>} :
           routines = SyncedRoutines(fill[1]) /\ alarms = SyncedAlarms(fill[2])

StoreRoutineSync ==
    /\ opsDone < MaxOps
    /\ opsDone' = opsDone + 1
    /\ \E doc \in StoreRoutineDocs : handleRoutineSync(doc)

StoreAlarmSync ==
    /\ opsDone < MaxOps
    /\ opsDone' = opsDone + 1
    /\ \E doc \in StoreAlarmDocs : handleAlarmSync(doc)

StoreFullSync ==
    /\ opsDone < MaxOps
    /\ opsDone' = opsDone + 1
    /\ \E doc \in StoreFullSyncDocs : handleFullSync(doc)

NextStore == StoreRoutineSync \/ StoreAlarmSync \/ StoreFullSync

SpecStore == InitStore /\ [][NextStore]_vars

\* the validity of a routine or alarm item as the interface states it
ClaimInt(field, lo, hi) == Len(field) = 1 /\ field[1] \in lo..hi
ClaimValidRoutine(o) ==
    /\ ClaimInt(o.id, 0, 32767) /\ Len(o.enabled) = 1
    /\ ClaimInt(o.start_hour, 0, 23) /\ ClaimInt(o.start_minute, 0, 59)
    /\ ClaimInt(o.end_hour, 0, 23) /\ ClaimInt(o.end_minute, 0, 59)
    /\ ClaimInt(o.brightness, 0, 15) /\ ClaimInt(o.mode, 0, 2)
ClaimValidAlarm(o) ==
    /\ ClaimInt(o.id, 0, 32767) /\ Len(o.enabled) = 1
    /\ ClaimInt(o.wake_hour, 0, 23) /\ ClaimInt(o.wake_minute, 0, 59)
    /\ ClaimInt(o.start_hour, 0, 23) /\ ClaimInt(o.start_minute, 0, 59)
    /\ ClaimInt(o.duration_minutes, 1, 240)
IdsOf(s) == {s[i].id : i \in 1..Len(s)}
IsUpsert(doc) == doc.action = <<"upsert">> /\ Len(doc.data) = 1
StorageFull(type) == <<[type |-> type, success |-> FALSE, message |-> "Storage full"]>>

\* a step that upserts a well-formed routine of an id not stored into a store
\* of 10: it is refused with 'Storage full' and the store is as it was
C7_FullRoutineUpsert ==
    \A doc \in StoreRoutineDocs :
        (/\ handleRoutineSync(doc) /\ IsUpsert(doc) /\ ClaimValidRoutine(doc.data[1])
         /\ Len(routines) = 10 /\ doc.data[1].id[1] \notin IdsOf(routines))
        => /\ outResponses' = StorageFull("routine_sync_response")
           /\ routines' = routines /\ alarms' = alarms

\* the same for a well-formed alarm of an id not stored and a store of 5
C7_FullAlarmUpsert ==
    \A doc \in StoreAlarmDocs :
        (/\ handleAlarmSync(doc) /\ IsUpsert(doc) /\ ClaimValidAlarm(doc.data[1])
         /\ Len(alarms) = 5 /\ doc.data[1].id[1] \notin IdsOf(alarms))
        => /\ outResponses' = StorageFull("alarm_sync_response")
           /\ routines' = routines /\ alarms' = alarms

\* C7: after any sequence of upserts, deletes and full syncs routine_count is
\* in 0..10 and alarm_count in 0..5, and the upsert of a new id into a full
\* store is answered success=false 'Storage full' and changes no entry.
C7_Capacity ==
    /\ [](Len(routines) \in 0..10 /\ Len(alarms) \in 0..5)
    /\ [][C7_FullRoutineUpsert /\ C7_FullAlarmUpsert]_vars

\* an 11th routine id was refused and the store still holds its 10 entries
C7_Witness ==
    /\ lastOp = "routine_sync"
    /\ args = <<UpsertDoc(GoodRoutineObj(10, 1))>>
    /\ outResponses = StorageFull("routine_sync_response")
    /\ routines = SyncedRoutines(10)

\* the items of a batch field (none when the key is absent)
BatchItems(b) == IF b.kind = "array" THEN b.items ELSE <<>>
ValidRoutinesOf(b) == SelectSeq(BatchItems(b), ClaimValidRoutine)
ValidAlarmsOf(b) == SelectSeq(BatchItems(b), ClaimValidAlarm)
InvalidRoutinesOf(b) == Len(BatchItems(b)) - Len(ValidRoutinesOf(b))
InvalidAlarmsOf(b) == Len(BatchItems(b)) - Len(ValidAlarmsOf(b))
\* the replies that name k skipped routines, and those that name k skipped alarms
NamesRoutines(k) ==
    {"Full sync partial: " \o ToString(k) \o " routine(s) skipped"}
    \cup {"Full sync partial: " \o ToString(k) \o " routine(s) skipped, "
            \o ToString(j) \o " alarm(s) skipped" : j \in 1..12}
NamesAlarms(k) ==
    {"Full sync partial: " \o ToString(k) \o " alarm(s) skipped"}
    \cup {"Full sync partial: " \o ToString(j) \o " routine(s) skipped, "
            \o ToString(k) \o " alarm(s) skipped" : j \in 1..12}

\* C8: a full sync whose routine batch holds v <= 10 valid and k invalid
\* items leaves exactly the v valid routines in batch order, replies
\* success = (no invalid routine and no invalid alarm) and, when k > 0,
\* names 'k routine(s) skipped'; the same for alarms with capacity 5.
C8_FullSyncReport ==
    (lastOp = "full_sync" /\ args[1].routines.kind # "other" /\ args[1].alarms.kind # "other") =>
        LET rb == args[1].routines
            ab == args[1].alarms
            reply == outResponses[1]
        IN  /\ Len(outResponses) = 1
            /\ Len(ValidRoutinesOf(rb)) <= 10 =>
                /\ routines = [i \in 1..Len(ValidRoutinesOf(rb)) |->
                                  routineFromObj(ValidRoutinesOf(rb)[i])]
                /\ InvalidRoutinesOf(rb) > 0 => reply.message \in NamesRoutines(InvalidRoutinesOf(rb))
            /\ Len(ValidAlarmsOf(ab)) <= 5 =>
                /\ alarms = [i \in 1..Len(ValidAlarmsOf(ab)) |-> alarmFromObj(ValidAlarmsOf(ab)[i])]
                /\ InvalidAlarmsOf(ab) > 0 => reply.message \in NamesAlarms(InvalidAlarmsOf(ab))
            /\ (Len(ValidRoutinesOf(rb)) <= 10 /\ Len(ValidAlarmsOf(ab)) <= 5) =>
                reply.success = (InvalidRoutinesOf(rb) = 0 /\ InvalidAlarmsOf(ab) = 0)

-----------------------------------------------------------------------------
(* Remote messages: direct state set, state request, sun sync, time sync *)

\* the state set storing the received brightness and mode as they come
stateSetResult_NoClamp(msg) ==
    LET newBrightness == IF Len(msg.brightness) = 0 THEN brightness ELSE msg.brightness[1]
        newMode == IF Len(msg.mode) = 0 THEN mode ELSE msg.mode[1]
        newIsOn == IF Len(msg.on) = 0 THEN isOn ELSE msg.on[1]
    IN  [brightness |-> newBrightness, mode |-> newMode, isOn |-> newIsOn,
         stateChanged |-> newBrightness # brightness \/ newMode # mode \/ newIsOn # isOn,
         published |-> msg.request_state = <<TRUE>>]

\* the state set that honours the manual lock
stateSetResult_Locked(msg) ==
    IF isManualControlLocked
    THEN [brightness |-> brightness, mode |-> mode, isOn |-> isOn,
          stateChanged |-> FALSE, published |-> msg.request_state = <<TRUE>>]
    ELSE LET clamped == constrain(msg.brightness[1], 0, MAX_BRIGHTNESS)
             newBrightness == IF Len(msg.brightness) = 0 THEN brightness
                              ELSE IF isOn /\ clamped < 1 THEN 1 ELSE clamped
             newMode == IF Len(msg.mode) = 0 THEN mode ELSE constrain(msg.mode[1], 0, 2)
             newIsOn == IF Len(msg.on) = 0 THEN isOn ELSE msg.on[1]
         IN  [brightness |-> newBrightness, mode |-> newMode, isOn |-> newIsOn,
              stateChanged |-> newBrightness # brightness \/ newMode # mode \/ newIsOn # isOn,
              published |-> msg.request_state = <<TRUE>>]

\* onWSMsg on a message with no "type": the keys brightness, mode and on are
\* applied in this order, each when present and well-typed; request_state
\* publishes; applyOutput runs when a value changed, and nothing is published
\* for the change itself
stateSetResult(msg) ==
    LET clamped == constrain(msg.brightness[1], 0, MAX_BRIGHTNESS)
        newBrightness == IF Len(msg.brightness) = 0 THEN brightness
                         ELSE IF isOn /\ clamped < 1 THEN 1 ELSE clamped
        newMode == IF Len(msg.mode) = 0 THEN mode ELSE constrain(msg.mode[1], 0, 2)
        newIsOn == IF Len(msg.on) = 0 THEN isOn ELSE msg.on[1]
    IN  [brightness |-> newBrightness, mode |-> newMode, isOn |-> newIsOn,
         stateChanged |-> newBrightness # brightness \/ newMode # mode \/ newIsOn # isOn,
         published |-> msg.request_state = <<TRUE>>]

handleStateSet(msg) ==
    LET r == stateSetResult(msg)
    IN  /\ brightness' = r.brightness
        /\ mode' = r.mode
        /\ isOn' = r.isOn
        /\ IF r.stateChanged
           THEN ledcWrite(applyOutput(r.isOn, r.brightness, r.mode))
           ELSE UNCHANGED <<ch0, ch1>>
        /\ Output("state_set", r.stateChanged, r.published, <<>>, {}, {})
        /\ args' = <<msg>>
        /\ UNCHANGED <<storeVars, trackVars, suppVars, sunVars, clickVars, ret>>

\* handleSunSyncState(active, source): the new flags, and whether it publishes
sunSyncResult(active, source) ==
    [sunSyncActive |-> active,
     sunSyncDisabledByHardware |-> (~active /\ source = "hardware"),
     published |-> sunSyncActive # active]

\* onWSMsg with type "sun_sync_state"; source defaults to "app"
handleSunSyncMessage(msg) ==
    /\ IF ~readBoolField(msg.active)
       THEN /\ UNCHANGED sunVars
            /\ Output("sun_sync_state", FALSE, FALSE,
                      <<syncResponse("sun_sync_response", FALSE, "Invalid field: active")>>,
                      {}, {})
       ELSE LET source == IF Len(msg.source) = 1 THEN msg.source[1] ELSE "app"
                r == sunSyncResult(msg.active[1], source)
            IN  /\ sunSyncActive' = r.sunSyncActive
                /\ sunSyncDisabledByHardware' = r.sunSyncDisabledByHardware
                /\ Output("sun_sync_state", FALSE, r.published,
                          <<syncResponse("sun_sync_response", TRUE,
                                         IF msg.active[1] THEN "Sun sync enabled"
                                         ELSE "Sun sync disabled")>>,
                          {}, {})
    /\ args' = <<msg>>
    /\ UNCHANGED <<lampVars, storeVars, trackVars, suppVars, clickVars, ret>>

\* handleTimeSync dropping a message without timestamp silently
handleTimeSync_SilentOnError(msg) ==
    /\ Output("time_sync", FALSE, FALSE,
              IF Len(msg.timestamp) = 1
              THEN <<syncResponse("time_sync_response", TRUE,
                         "Time synchronized to Auckland timezone with automatic DST")>>
              ELSE <<>>,
              {}, {})
    /\ args' = <<msg>>
    /\ UNCHANGED <<lampVars, storeVars, trackVars, suppVars, sunVars, clickVars, ret>>

\* onWSMsg with type "time_sync": the clock is set outside the model
handleTimeSync(msg) ==
    /\ Output("time_sync", FALSE, FALSE,
              <<IF Len(msg.timestamp) = 1
                THEN syncResponse("time_sync_response", TRUE,
                         "Time synchronized to Auckland timezone with automatic DST")
                ELSE syncResponse("time_sync_response", FALSE, "Invalid time data")>>,
              {}, {})
    /\ args' = <<msg>>
    /\ UNCHANGED <<lampVars, storeVars, trackVars, suppVars, sunVars, clickVars, ret>>

-----------------------------------------------------------------------------
(* Schedule engine *)

\* updateSuppressionWindows that never ends a suppression
routineSuppressedAfter_Sticky(currentTime) == routineSuppressed

\* updateSuppressionWindows, routine half: the flag it leaves
routineSuppressedAfter(currentTime) ==
    /\ routineSuppressed
    /\ isWithinTimeRange(suppressedRoutine.start_hour, suppressedRoutine.start_minute,
                         suppressedRoutine.end_hour, suppressedRoutine.end_minute, currentTime)

\* updateSuppressionWindows ending the alarm suppression at every tick
alarmSuppressedAfter_Cleared(currentTime) == FALSE

\* updateSuppressionWindows, alarm half: the flag it leaves
alarmSuppressedAfter(currentTime) ==
    /\ alarmSuppressed
    /\ isWithinTimeRange(suppressedAlarm.start_hour, suppressedAlarm.start_minute,
                         suppressedAlarm.wake_hour, suppressedAlarm.wake_minute, currentTime)

\* the scan's test comparing with the id of the running routine
routineSkipped_ByActiveId(rSupp, r) == rSupp /\ activeRoutineId = r.id

\* the scan's test on a routine r in range: it is the suppressed one
routineSkipped(rSupp, r) == rSupp /\ suppressedRoutine.id = r.id

\* the scan's test on an alarm a in its window: it is the suppressed one
alarmSkipped(aSupp, a) == aSupp /\ suppressedAlarm.id = a.id

\* the end of an alarm that only clears the markers, as the end of a routine does
alarmEnd_KeepsState(keep, log0) ==
    [keep EXCEPT !.alarmActive = FALSE, !.activeAlarmId = -1, !.lastAlarmMinute = -1,
                 !.published = TRUE, !.log = log0 \cup {"alarm ended"}]

\* the end of an alarm: the lamp is locked on, full, both channels
alarmEnd(keep, log0) ==
    [keep EXCEPT !.isOn = TRUE, !.brightness = MAX_BRIGHTNESS, !.mode = MODE_BOTH,
                 !.alarmActive = FALSE, !.activeAlarmId = -1,
                 !.lastAlarmMinute = -1,
                 !.applied = TRUE, !.published = TRUE,
                 !.log = log0 \cup {"alarm ended"}]

\* the routine scan taking the last matching routine instead of the first
firstRoutineMatch_LastMatch(currentTime) ==
    LET hit(i) == routines[i].enabled /\ routineInTimeRange(routines[i], currentTime)
    IN  IF \E i \in 1..Len(routines) : hit(i)
        THEN CHOOSE i \in 1..Len(routines) : hit(i) /\ \A j \in (i + 1)..Len(routines) : ~hit(j)
        ELSE 0

\* the routine scan: index of the first enabled routine whose window holds
\* the current time, 0 when there is none
firstRoutineMatch(currentTime) ==
    LET hit(i) == routines[i].enabled /\ routineInTimeRange(routines[i], currentTime)
    IN  IF \E i \in 1..Len(routines) : hit(i)
        THEN CHOOSE i \in 1..Len(routines) : hit(i) /\ \A j \in 1..(i - 1) : ~hit(j)
        ELSE 0

\* the alarm scan: index of the first enabled alarm whose [start, wake] holds
\* the current time, 0 when there is none
firstAlarmMatch(currentTime) ==
    LET hit(i) == alarms[i].enabled /\ alarmInWindow(alarms[i], currentTime)
    IN  IF \E i \in 1..Len(alarms) : hit(i)
        THEN CHOOSE i \in 1..Len(alarms) : hit(i) /\ \A j \in 1..(i - 1) : ~hit(j)
        ELSE 0

\* a ramp that falls from 15 to 0 instead of rising
alarmBrightness_Falling(currentTime, startTime, duration) ==
    LET elapsed == currentTime - startTime
    IN  IF elapsed <= 0 THEN MAX_BRIGHTNESS
        ELSE IF elapsed >= duration THEN 0
        ELSE MAX_BRIGHTNESS - (elapsed * MAX_BRIGHTNESS) \div duration

\* (int)(constrain((float)(currentTime - startTime) / (float)duration, 0.0, 1.0) * 15):
\* for 0 <= elapsed and duration in 1..240 the single-precision quotient and
\* product truncate to the same integer as the exact quotient
alarmBrightness(currentTime, startTime, duration) ==
    LET elapsed == currentTime - startTime
    IN  IF elapsed <= 0 THEN 0
        ELSE IF elapsed >= duration THEN MAX_BRIGHTNESS
        ELSE (elapsed * MAX_BRIGHTNESS) \div duration

\* the values checkSchedule() leaves when nothing applies
tickKeep(rSupp, aSupp, log) ==
    [isOn |-> isOn, brightness |-> brightness, mode |-> mode,
     routineActive |-> routineActive, activeRoutineId |-> activeRoutineId,
     lastRoutineMinute |-> lastRoutineMinute,
     alarmActive |-> alarmActive, activeAlarmId |-> activeAlarmId,
     lastAlarmMinute |-> lastAlarmMinute,
     routineSuppressed |-> rSupp, alarmSuppressed |-> aSupp,
     applied |-> FALSE, published |-> FALSE, log |-> log]

\* the routine scan applying a routine once, when it starts, and never again
routineMatched_OncePerRun(keep, ri, rSupp, currentMinute, log0) ==
    IF routineSkipped(rSupp, routines[ri])
    THEN [keep EXCEPT !.log = log0 \cup {"routine suppressed; skipping"}]
    ELSE IF ~routineActive \/ activeRoutineId # routines[ri].id
    THEN [keep EXCEPT !.routineActive = TRUE,
                      !.activeRoutineId = routines[ri].id,
                      !.lastRoutineMinute = currentMinute,
                      !.brightness = routines[ri].brightness,
                      !.mode = routines[ri].mode,
                      !.isOn = TRUE,
                      !.applied = TRUE, !.published = TRUE,
                      !.log = log0 \cup {"applied routine"}]
    ELSE keep

\* the routine scan found routines[ri] in range: skip it when suppressed,
\* apply it when it is new or the minute changed, and return
routineMatched(keep, ri, rSupp, currentMinute, log0) ==
    IF routineSkipped(rSupp, routines[ri])
    THEN [keep EXCEPT !.log = log0 \cup {"routine suppressed; skipping"}]
    ELSE IF \/ ~routineActive \/ activeRoutineId # routines[ri].id
            \/ lastRoutineMinute # currentMinute
    THEN [keep EXCEPT !.routineActive = TRUE,
                      !.activeRoutineId = routines[ri].id,
                      !.lastRoutineMinute = currentMinute,
                      !.brightness = routines[ri].brightness,
                      !.mode = routines[ri].mode,
                      !.isOn = TRUE,
                      !.applied = TRUE, !.published = TRUE,
                      !.log = log0 \cup {"applied routine"}]
    ELSE keep

\* the end of a routine that locks the lamp as the end of an alarm does
routineEnd_LocksIn(keep, log0) ==
    [keep EXCEPT !.isOn = TRUE, !.brightness = MAX_BRIGHTNESS, !.mode = MODE_BOTH,
                 !.routineActive = FALSE, !.activeRoutineId = -1,
                 !.lastRoutineMinute = -1, !.applied = TRUE, !.published = TRUE,
                 !.log = log0 \cup {"routine ended"}]

\* the end of a routine that publishes but leaves the markers set
routineEnd_KeepsMarkers(keep, log0) ==
    [keep EXCEPT !.published = TRUE, !.log = log0 \cup {"routine ended"}]

\* no routine is in range and one was running: it ends, the lamp stays
routineEnd(keep, log0) ==
    [keep EXCEPT !.routineActive = FALSE, !.activeRoutineId = -1,
                 !.lastRoutineMinute = -1, !.published = TRUE,
                 !.log = log0 \cup {"routine ended"}]

\* the alarm block: the scan, the ramp of the alarm found, the end of an alarm
alarmBlock(keep, ai, aSupp, currentTime, currentMinute, log0) ==
    IF ai # 0 THEN
        IF alarmSkipped(aSupp, alarms[ai])
        THEN [keep EXCEPT !.log = log0 \cup {"alarm suppressed; skipping"}]
        ELSE IF \/ ~alarmActive \/ activeAlarmId # alarms[ai].id
                \/ lastAlarmMinute # currentMinute
        THEN [keep EXCEPT !.alarmActive = TRUE,
                          !.activeAlarmId = alarms[ai].id,
                          !.lastAlarmMinute = currentMinute,
                          !.brightness =
                              alarmBrightness(currentTime,
                                  alarms[ai].start_hour * 60 + alarms[ai].start_minute,
                                  alarms[ai].duration_minutes),
                          !.mode = MODE_BOTH,
                          !.isOn = TRUE,
                          !.applied = TRUE, !.published = TRUE,
                          !.log = log0 \cup {"alarm progress"}]
        ELSE keep
    ELSE IF alarmActive THEN alarmEnd(keep, log0)
    ELSE keep

\* checkSchedule() that looks at the alarms before the routines
checkScheduleResult_AlarmsFirst(currentHour, currentMinute) ==
    LET currentTime == currentHour * 60 + currentMinute
        rSupp == routineSuppressedAfter(currentTime)
        aSupp == alarmSuppressedAfter(currentTime)
        log0 == (IF routineSuppressed /\ ~rSupp THEN {"routine suppression window ended"} ELSE {})
                \cup (IF alarmSuppressed /\ ~aSupp THEN {"alarm suppression window ended"} ELSE {})
        keep == tickKeep(rSupp, aSupp, log0)
        ri == firstRoutineMatch(currentTime)
        ai == firstAlarmMatch(currentTime)
    IN  IF ai # 0 \/ alarmActive
        THEN alarmBlock(keep, ai, aSupp, currentTime, currentMinute, log0)
        ELSE IF ri # 0 THEN routineMatched(keep, ri, rSupp, currentMinute, log0)
        ELSE IF routineActive THEN routineEnd(keep, log0)
        ELSE keep

\* checkSchedule() with a clock reading: the suppression windows, then the
\* routine scan, then the end of a routine, then the alarm scan, then the
\* end of an alarm
checkScheduleResult(currentHour, currentMinute) ==
    LET currentTime == currentHour * 60 + currentMinute
        rSupp == routineSuppressedAfter(currentTime)
        aSupp == alarmSuppressedAfter(currentTime)
        log0 == (IF routineSuppressed /\ ~rSupp THEN {"routine suppression window ended"} ELSE {})
                \cup (IF alarmSuppressed /\ ~aSupp THEN {"alarm suppression window ended"} ELSE {})
        keep == tickKeep(rSupp, aSupp, log0)
        ri == firstRoutineMatch(currentTime)
        ai == firstAlarmMatch(currentTime)
    IN  IF ri # 0 THEN routineMatched(keep, ri, rSupp, currentMinute, log0)
        ELSE IF routineActive THEN routineEnd(keep, log0)
        ELSE alarmBlock(keep, ai, aSupp, currentTime, currentMinute, log0)

\* checkSchedule going on with the fields of a reading that is not valid
checkSchedule_StaleClock(reading) ==
    /\ IF FALSE
       THEN /\ UNCHANGED <<lampVars, trackVars, suppVars>>
            /\ NoOutput("tick")
       ELSE LET r == checkScheduleResult(reading.hour, reading.minute)
            IN  /\ isOn' = r.isOn /\ brightness' = r.brightness /\ mode' = r.mode
                /\ IF r.applied THEN ledcWrite(applyOutput(r.isOn, r.brightness, r.mode))
                   ELSE UNCHANGED <<ch0, ch1>>
                /\ routineActive' = r.routineActive
                /\ activeRoutineId' = r.activeRoutineId
                /\ lastRoutineMinute' = r.lastRoutineMinute
                /\ alarmActive' = r.alarmActive
                /\ activeAlarmId' = r.activeAlarmId
                /\ lastAlarmMinute' = r.lastAlarmMinute
                /\ routineSuppressed' = r.routineSuppressed
                /\ alarmSuppressed' = r.alarmSuppressed
                /\ UNCHANGED <<suppressedRoutine, suppressedAlarm>>
                /\ Output("tick", r.applied, r.published, <<>>, r.log, {})
    /\ args' = <<reading>>
    /\ UNCHANGED <<storeVars, sunVars, clickVars, ret>>

\* checkSchedule(): reading.valid is what getLocalTime() returns
checkSchedule(reading) ==
    /\ IF ~reading.valid
       THEN /\ UNCHANGED <<lampVars, trackVars, suppVars>>
            /\ NoOutput("tick")
       ELSE LET r == checkScheduleResult(reading.hour, reading.minute)
            IN  /\ isOn' = r.isOn /\ brightness' = r.brightness /\ mode' = r.mode
                /\ IF r.applied THEN ledcWrite(applyOutput(r.isOn, r.brightness, r.mode))
                   ELSE UNCHANGED <<ch0, ch1>>
                /\ routineActive' = r.routineActive
                /\ activeRoutineId' = r.activeRoutineId
                /\ lastRoutineMinute' = r.lastRoutineMinute
                /\ alarmActive' = r.alarmActive
                /\ activeAlarmId' = r.activeAlarmId
                /\ lastAlarmMinute' = r.lastAlarmMinute
                /\ routineSuppressed' = r.routineSuppressed
                /\ alarmSuppressed' = r.alarmSuppressed
                /\ UNCHANGED <<suppressedRoutine, suppressedAlarm>>
                /\ Output("tick", r.applied, r.published, <<>>, r.log, {})
    /\ args' = <<reading>>
    /\ UNCHANGED <<storeVars, sunVars, clickVars, ret>>

-----------------------------------------------------------------------------
(* Override and manual inputs *)

\* the lookup that takes the id for the position in the array
findRoutineById_ByPosition(id) == IF id < 0 \/ id >= Len(routines) THEN 0 ELSE id + 1

\* findRoutineById / findAlarmById: index of the entry, 0 for nullptr
findRoutineById(id) == IF id < 0 THEN 0 ELSE indexOfId(routines, id)
findAlarmById(id) == IF id < 0 THEN 0 ELSE indexOfId(alarms, id)

\* the frames handleTripleClick broadcasts besides the state snapshot
sunSyncStateEvent == [type |-> "sun_sync_state", source |-> "hardware", flags |-> <<FALSE>>]
overrideEvent(routineWasActive, alarmWasActive, sunSyncWasActive, rSupp, aSupp, sun) ==
    [type |-> "schedule_override_event", source |-> "hardware",
     flags |-> <<routineWasActive, alarmWasActive, sunSyncWasActive, rSupp, aSupp, sun>>]

\* the values a handler leaves when it touches none of them
gestureKeep ==
    [isOn |-> isOn, brightness |-> brightness, mode |-> mode,
     routineActive |-> routineActive, activeRoutineId |-> activeRoutineId,
     lastRoutineMinute |-> lastRoutineMinute,
     alarmActive |-> alarmActive, activeAlarmId |-> activeAlarmId,
     lastAlarmMinute |-> lastAlarmMinute,
     routineSuppressed |-> routineSuppressed, suppressedRoutine |-> suppressedRoutine,
     alarmSuppressed |-> alarmSuppressed, suppressedAlarm |-> suppressedAlarm,
     sunSyncActive |-> sunSyncActive,
     sunSyncDisabledByHardware |-> sunSyncDisabledByHardware,
     applied |-> FALSE, published |-> FALSE, log |-> {}, events |-> {}]

\* the override that also switches the lamp off
tripleClickResult_LampOff ==
    LET ri == findRoutineById(activeRoutineId)
        ai == findAlarmById(activeAlarmId)
        rSupp == IF routineActive THEN ri # 0 ELSE routineSuppressed
        aSupp == IF alarmActive THEN ai # 0 ELSE alarmSuppressed
        any == routineActive \/ alarmActive \/ sunSyncActive
    IN  [gestureKeep EXCEPT
            !.isOn = FALSE,
            !.routineSuppressed = rSupp,
            !.suppressedRoutine = IF routineActive /\ ri # 0 THEN routines[ri]
                                  ELSE suppressedRoutine,
            !.routineActive = FALSE,
            !.activeRoutineId = IF routineActive THEN -1 ELSE activeRoutineId,
            !.lastRoutineMinute = IF routineActive THEN -1 ELSE lastRoutineMinute,
            !.alarmSuppressed = aSupp,
            !.suppressedAlarm = IF alarmActive /\ ai # 0 THEN alarms[ai] ELSE suppressedAlarm,
            !.alarmActive = FALSE,
            !.activeAlarmId = IF alarmActive THEN -1 ELSE activeAlarmId,
            !.lastAlarmMinute = IF alarmActive THEN -1 ELSE lastAlarmMinute,
            !.sunSyncActive = FALSE,
            !.sunSyncDisabledByHardware = (sunSyncActive \/ sunSyncDisabledByHardware),
            !.applied = TRUE, !.published = TRUE,
            !.log = {"Triple click detected"}
                    \cup (IF any THEN {"blink"} ELSE {"nothing to disable"})
                    \cup (IF routineActive /\ ri = 0
                          THEN {"active routine ID not found"} ELSE {})
                    \cup (IF alarmActive /\ ai = 0
                          THEN {"active alarm ID not found"} ELSE {}),
            !.events = {overrideEvent(routineActive, alarmActive, sunSyncActive,
                                      rSupp, aSupp, FALSE)}
                       \cup (IF sunSyncActive THEN {sunSyncStateEvent} ELSE {})]

\* the override that leaves an automation it cannot find in the store active
tripleClickResult_KeepsMissing ==
    LET ri == findRoutineById(activeRoutineId)
        ai == findAlarmById(activeAlarmId)
        rSupp == IF routineActive THEN ri # 0 ELSE routineSuppressed
        aSupp == IF alarmActive THEN ai # 0 ELSE alarmSuppressed
        any == routineActive \/ alarmActive \/ sunSyncActive
    IN  [gestureKeep EXCEPT
            !.routineSuppressed = rSupp,
            !.suppressedRoutine = IF routineActive /\ ri # 0 THEN routines[ri]
                                  ELSE suppressedRoutine,
            !.routineActive = routineActive /\ ri = 0,
            !.activeRoutineId = IF routineActive /\ ri # 0 THEN -1 ELSE activeRoutineId,
            !.lastRoutineMinute = IF routineActive THEN -1 ELSE lastRoutineMinute,
            !.alarmSuppressed = aSupp,
            !.suppressedAlarm = IF alarmActive /\ ai # 0 THEN alarms[ai] ELSE suppressedAlarm,
            !.alarmActive = alarmActive /\ ai = 0,
            !.activeAlarmId = IF alarmActive /\ ai # 0 THEN -1 ELSE activeAlarmId,
            !.lastAlarmMinute = IF alarmActive THEN -1 ELSE lastAlarmMinute,
            !.sunSyncActive = FALSE,
            !.sunSyncDisabledByHardware = (sunSyncActive \/ sunSyncDisabledByHardware),
            !.applied = TRUE, !.published = TRUE,
            !.log = {"Triple click detected"}
                    \cup (IF any THEN {"blink"} ELSE {"nothing to disable"})
                    \cup (IF routineActive /\ ri = 0
                          THEN {"active routine ID not found"} ELSE {})
                    \cup (IF alarmActive /\ ai = 0
                          THEN {"active alarm ID not found"} ELSE {}),
            !.events = {overrideEvent(routineActive, alarmActive, sunSyncActive,
                                      rSupp, aSupp, FALSE)}
                       \cup (IF sunSyncActive THEN {sunSyncStateEvent} ELSE {})]

\* handleTripleClick(): blinkLamp() ends in applyOutput(), so the channels
\* it leaves are those of the LampState
tripleClickResult ==
    LET ri == findRoutineById(activeRoutineId)
        ai == findAlarmById(activeAlarmId)
        rSupp == IF routineActive THEN ri # 0 ELSE routineSuppressed
        aSupp == IF alarmActive THEN ai # 0 ELSE alarmSuppressed
        any == routineActive \/ alarmActive \/ sunSyncActive
    IN  [gestureKeep EXCEPT
            !.routineSuppressed = rSupp,
            !.suppressedRoutine = IF routineActive /\ ri # 0 THEN routines[ri]
                                  ELSE suppressedRoutine,
            !.routineActive = FALSE,
            !.activeRoutineId = IF routineActive THEN -1 ELSE activeRoutineId,
            !.lastRoutineMinute = IF routineActive THEN -1 ELSE lastRoutineMinute,
            !.alarmSuppressed = aSupp,
            !.suppressedAlarm = IF alarmActive /\ ai # 0 THEN alarms[ai] ELSE suppressedAlarm,
            !.alarmActive = FALSE,
            !.activeAlarmId = IF alarmActive THEN -1 ELSE activeAlarmId,
            !.lastAlarmMinute = IF alarmActive THEN -1 ELSE lastAlarmMinute,
            !.sunSyncActive = FALSE,
            !.sunSyncDisabledByHardware = (sunSyncActive \/ sunSyncDisabledByHardware),
            !.applied = TRUE, !.published = TRUE,
            !.log = {"Triple click detected"}
                    \cup (IF any THEN {"blink"} ELSE {"nothing to disable"})
                    \cup (IF routineActive /\ ri = 0
                          THEN {"active routine ID not found"} ELSE {})
                    \cup (IF alarmActive /\ ai = 0
                          THEN {"active alarm ID not found"} ELSE {}),
            !.events = {overrideEvent(routineActive, alarmActive, sunSyncActive,
                                      rSupp, aSupp, FALSE)}
                       \cup (IF sunSyncActive THEN {sunSyncStateEvent} ELSE {})]

\* the single-click branch without the lock test
singleClickResult_NoLock ==
    [gestureKeep EXCEPT !.isOn = ~isOn, !.applied = TRUE, !.published = TRUE,
                        !.log = {"Single click"}]

\* the single-click branch of handleButtonClicks
singleClickResult ==
    IF isManualControlLocked THEN [gestureKeep EXCEPT !.log = {"Single click ignored"}]
    ELSE [gestureKeep EXCEPT !.isOn = ~isOn, !.applied = TRUE, !.published = TRUE,
                             !.log = {"Single click"}]

\* the double-click branch changing the mode without driving the channels
doubleClickResult_NoApply ==
    IF isManualControlLocked THEN [gestureKeep EXCEPT !.log = {"Double click ignored"}]
    ELSE [gestureKeep EXCEPT !.mode = (mode + 1) % 3, !.published = TRUE,
                             !.log = {"Double click"}]

\* the double-click branch of handleButtonClicks
doubleClickResult ==
    IF isManualControlLocked THEN [gestureKeep EXCEPT !.log = {"Double click ignored"}]
    ELSE [gestureKeep EXCEPT !.mode = (mode + 1) % 3, !.applied = TRUE, !.published = TRUE,
                             !.log = {"Double click"}]

\* the grouping timeout of handleButtonClicks with clicks = clickCount
resolveClicks(clicks) ==
    IF clicks >= 3 THEN tripleClickResult
    ELSE IF clicks = 2 THEN doubleClickResult
    ELSE IF clicks = 1 THEN singleClickResult
    ELSE gestureKeep

\* the rotary step with the lower limit 0 whether the lamp is on or off
rotaryResult_ZeroFloor(delta) ==
    IF isManualControlLocked THEN [gestureKeep EXCEPT !.log = {"Rotary input ignored"}]
    ELSE LET newBrightness == constrain(brightness + delta, 0, MAX_BRIGHTNESS)
         IN  IF newBrightness # brightness
             THEN [gestureKeep EXCEPT !.brightness = newBrightness,
                                      !.applied = TRUE, !.published = TRUE,
                                      !.log = {"Brightness"}]
             ELSE gestureKeep

\* handleRotaryEncoder() on a position change of delta steps
rotaryResult(delta) ==
    IF isManualControlLocked THEN [gestureKeep EXCEPT !.log = {"Rotary input ignored"}]
    ELSE LET minBrightness == IF isOn THEN 1 ELSE 0
             newBrightness == constrain(brightness + delta, minBrightness, MAX_BRIGHTNESS)
         IN  IF newBrightness # brightness
             THEN [gestureKeep EXCEPT !.brightness = newBrightness,
                                      !.applied = TRUE, !.published = TRUE,
                                      !.log = {"Brightness"}]
             ELSE gestureKeep

\* the assignments of a handler run whose result is r
Commit(op, r) ==
    /\ isOn' = r.isOn /\ brightness' = r.brightness /\ mode' = r.mode
    /\ IF r.applied THEN ledcWrite(applyOutput(r.isOn, r.brightness, r.mode))
       ELSE UNCHANGED <<ch0, ch1>>
    /\ routineActive' = r.routineActive
    /\ activeRoutineId' = r.activeRoutineId
    /\ lastRoutineMinute' = r.lastRoutineMinute
    /\ alarmActive' = r.alarmActive
    /\ activeAlarmId' = r.activeAlarmId
    /\ lastAlarmMinute' = r.lastAlarmMinute
    /\ routineSuppressed' = r.routineSuppressed
    /\ suppressedRoutine' = r.suppressedRoutine
    /\ alarmSuppressed' = r.alarmSuppressed
    /\ suppressedAlarm' = r.suppressedAlarm
    /\ sunSyncActive' = r.sunSyncActive
    /\ sunSyncDisabledByHardware' = r.sunSyncDisabledByHardware
    /\ Output(op, r.applied, r.published, <<>>, r.log, r.events)

\* handleRotaryEncoder() when the encoder moved by delta # 0
handleRotaryEncoder(delta) ==
    /\ Commit("rotary", rotaryResult(delta))
    /\ args' = <<delta>>
    /\ UNCHANGED <<storeVars, clickVars, ret>>

\* a run of handleButtonClicks() whose grouping timeout resolves a pending
\* group of clicks releases (the decoder's own variables are followed in the
\* button runs below)
handleResolvedClicks(clicks) ==
    /\ Commit("click", resolveClicks(clicks))
    /\ args' = <<clicks>>
    /\ UNCHANGED <<storeVars, clickVars, ret>>

-----------------------------------------------------------------------------
(* The button decoder *)

\* every level change counts as an edge
edgeAccepted_NoDebounce(pressed, newNow) == pressed # prevPressed

\* an edge is accepted when the level differs and the debounce time has passed
edgeAccepted(pressed, newNow) ==
    pressed # prevPressed /\ (newNow - lastChange) > DEBOUNCE_MS

\* the test after a release that only fires past the third release
tripleNow_AfterThird(count, newNow, first) ==
    count > 3 /\ (newNow - first) <= MULTI_CLICK_WINDOW_MS

\* the test after a release: the third release came within the window
tripleNow(count, newNow, first) ==
    count >= 3 /\ (newNow - first) <= MULTI_CLICK_WINDOW_MS

\* the grouping timeout
groupTimedOut(count, newNow, lastRelease) ==
    count > 0 /\ (newNow - lastRelease) > MULTI_CLICK_WINDOW_MS

\* the Serial lines that tell a resolved gesture
GestureLines ==
    { "Single click", "Single click ignored", "Double click", "Double click ignored",
      "Triple click detected" }

\* handleButtonClicks() called when millis() reads newNow and the button
\* level reads pressed
handleButtonClicks(newNow, pressed) ==
    LET edge == edgeAccepted(pressed, newNow)
        release == edge /\ prevPressed /\ ~pressed
        counted == IF release THEN (clickCount + 1) % 256 ELSE clickCount
        first == IF release /\ clickCount = 0 THEN newNow ELSE firstClickTime
        lastRelease == IF release THEN newNow ELSE lastClickReleaseTime
        immediate == release /\ tripleNow(counted, newNow, first)
        pending == IF immediate THEN 0 ELSE counted
        timedOut == groupTimedOut(pending, newNow, lastRelease)
        r == IF immediate THEN tripleClickResult
             ELSE IF timedOut THEN resolveClicks(pending)
             ELSE gestureKeep
        released == IF release THEN Append(accepted, newNow) ELSE accepted
    IN  /\ now' = newNow
        /\ lastChange' = IF edge THEN newNow ELSE lastChange
        /\ prevPressed' = IF edge THEN pressed ELSE prevPressed
        /\ firstClickTime' = first
        /\ lastClickReleaseTime' = lastRelease
        /\ clickCount' = IF timedOut THEN 0 ELSE pending
        /\ accepted' = IF r.log \cap GestureLines # {} THEN <<>> ELSE released
        /\ Commit("button", r)
        /\ args' = <<newNow, pressed>>
        /\ UNCHANGED <<storeVars, ret>>

-----------------------------------------------------------------------------
(* The controller: ticks, gestures and remote messages over a stored schedule *)

Routine(id, enabled, sh, sm, eh, em, b, m) ==
    [id |-> id, enabled |-> enabled, start_hour |-> sh, start_minute |-> sm,
     end_hour |-> eh, end_minute |-> em, brightness |-> b, mode |-> m]
Alarm(id, enabled, sh, sm, wh, wm, d) ==
    [id |-> id, enabled |-> enabled, wake_hour |-> wh, wake_minute |-> wm,
     start_hour |-> sh, start_minute |-> sm, duration_minutes |-> d]

\* two overlapping routines, a routine over midnight, a disabled one
RoutineA == Routine(0, TRUE, 10, 0, 10, 2, 5, MODE_WARM)
RoutineB == Routine(1, TRUE, 10, 2, 10, 3, 0, MODE_WHITE)
RoutineNight == Routine(2, TRUE, 23, 59, 0, 0, 15, MODE_BOTH)
RoutineOff == Routine(3, FALSE, 10, 0, 10, 6, 9, MODE_WHITE)
\* a routine that starts inside the ramp of AlarmX
RoutineLate == Routine(4, TRUE, 10, 5, 10, 7, 3, MODE_WARM)
\* an alarm that ramps over 10:04..10:06 and one that ends as RoutineA starts
AlarmX == Alarm(0, TRUE, 10, 4, 10, 6, 2)
AlarmY == Alarm(1, TRUE, 9, 58, 9, 59, 1)

\* the stores of the runs: what a full sync of these batches leaves
SchedStores ==
    { [routines |-> <<RoutineA, RoutineB>>, alarms |-> <<AlarmX>>],
      [routines |-> <<RoutineB, RoutineA>>, alarms |-> <<AlarmY, AlarmX>>],
      [routines |-> <<RoutineOff, RoutineNight>>, alarms |-> <<AlarmX>>],
      [routines |-> <<RoutineLate>>, alarms |-> <<AlarmX>>],
      [routines |-> <<RoutineB, Routine(6, TRUE, 10, 0, 10, 5, 9, MODE_WHITE)>>,
       alarms |-> <<>>] }

Reading(h, m) == [valid |-> TRUE, hour |-> h, minute |-> m]
NoReading == [valid |-> FALSE, hour |-> 0, minute |-> 0]
ClockReadings ==
    { NoReading, Reading(9, 59), Reading(10, 0), Reading(10, 2), Reading(10, 3),
      Reading(10, 4), Reading(10, 5), Reading(10, 7), Reading(11, 2), Reading(23, 59), Reading(0, 0) }

StateSetMsg(b, m, on, req) == [brightness |-> b, mode |-> m, on |-> on, request_state |-> req]
StateSetMsgs ==
    { StateSetMsg(<<-1>>, <<>>, <<>>, <<>>), StateSetMsg(<<16>>, <<>>, <<>>, <<>>),
      StateSetMsg(<<0>>, <<>>, <<TRUE>>, <<>>), StateSetMsg(<<>>, <<3>>, <<>>, <<>>),
      StateSetMsg(<<>>, <<-1>>, <<>>, <<>>), StateSetMsg(<<>>, <<>>, <<FALSE>>, <<>>),
      StateSetMsg(<<>>, <<>>, <<TRUE>>, <<>>), StateSetMsg(<<9>>, <<1>>, <<>>, <<>>),
      StateSetMsg(<<>>, <<>>, <<>>, <<TRUE>>), StateSetMsg(<<>>, <<>>, <<>>, <<>>) }

SunSyncMsg(active, source) == [active |-> active, source |-> source]
SunSyncMsgs ==
    { SunSyncMsg(<<TRUE>>, <<>>), SunSyncMsg(<<FALSE>>, <<>>),
      SunSyncMsg(<<FALSE>>, <<"hardware">>), SunSyncMsg(<<>>, <<"app">>) }

RotaryDeltas == {-16, -1, 1, 16}

\* the readings of the runs that follow every input: none, inside RoutineA,
\* inside AlarmX, inside neither
ManualReadings == {NoReading, Reading(10, 0), Reading(10, 5), Reading(10, 7)}

Init ==
    /\ BootLamp /\ BootTrack /\ BootSupp /\ BootSun /\ BootClicks /\ BootOut /\ BootFn
    /\ opsDone = 0
    /\ routines = <<RoutineA>> /\ alarms = <<AlarmX>>

Tick == (\E reading \in ManualReadings : checkSchedule(reading)) /\ UNCHANGED opsDone
Rotary == (\E delta \in RotaryDeltas : handleRotaryEncoder(delta)) /\ UNCHANGED opsDone
Click == (\E clicks \in 1..3 : handleResolvedClicks(clicks)) /\ UNCHANGED opsDone
StateSet == (\E msg \in StateSetMsgs : handleStateSet(msg)) /\ UNCHANGED opsDone
SunSync == (\E msg \in SunSyncMsgs : handleSunSyncMessage(msg)) /\ UNCHANGED opsDone

Next == Tick \/ Rotary \/ Click \/ StateSet \/ SunSync

Spec == Init /\ [][Next]_vars

-----------------------------------------------------------------------------
(* The schedule engine: ticks at every reading over each stored schedule,
   the override, and remote changes of the LampState *)

SchedStateSetMsgs ==
    { StateSetMsg(<<>>, <<>>, <<FALSE>>, <<>>), StateSetMsg(<<9>>, <<1>>, <<>>, <<>>) }

InitSched ==
    /\ BootLamp /\ BootTrack /\ BootSupp /\ BootSun /\ BootClicks /\ BootOut /\ BootFn
    /\ opsDone = 0
    /\ \E st \in SchedStores : routines = st.routines /\ alarms = st.alarms

SchedTick == (\E reading \in ClockReadings : checkSchedule(reading)) /\ UNCHANGED opsDone
SchedTripleClick == handleResolvedClicks(3) /\ UNCHANGED opsDone
SchedStateSet == (\E msg \in SchedStateSetMsgs : handleStateSet(msg)) /\ UNCHANGED opsDone

SpecSched == InitSched /\ [][SchedTick \/ SchedTripleClick \/ SchedStateSet]_vars

-----------------------------------------------------------------------------
(* Manual lock and the range of the LampState, under Spec *)

ResolvedSingleOrDouble == lastOp' = "click" /\ args'[1] \in {1, 2}

C2_LockedIgnored ==
    (isManualControlLocked /\ (lastOp' = "rotary" \/ ResolvedSingleOrDouble)) =>
        /\ isOn' = isOn /\ brightness' = brightness /\ mode' = mode
        /\ ch0' = ch0 /\ ch1' = ch1
        /\ ~outApplied'

C2_UnlockedSingleToggles ==
    (~isManualControlLocked /\ lastOp' = "click" /\ args'[1] = 1) => isOn' = ~isOn

\* C2: while routineActive, alarmActive or sunSyncActive is true, a rotary
\* step, a resolved single click and a resolved double click leave isOn,
\* brightness and mode unchanged and do not recompute the output; with none
\* of the three true, a resolved single click toggles isOn
C2_ManualLock == [][C2_LockedIgnored /\ C2_UnlockedSingleToggles]_vars

\* a single click was ignored while a routine was running
C2_Witness ==
    /\ lastOp = "click" /\ args = <<1>>
    /\ routineActive
    /\ "Single click ignored" \in outLog

\* C10: in every state reached by rotary steps, clicks, remote commands
\* (out-of-range values included), ticks and overrides, brightness is in
\* 0..15 and mode is WARM, WHITE or BOTH
C10_LampStateRange == brightness \in 0..15 /\ mode \in {MODE_WARM, MODE_WHITE, MODE_BOTH}

\* a remote command asked for brightness 16
C10_Witness ==
    /\ lastOp = "state_set"
    /\ args[1].brightness = <<16>>
    /\ brightness = 15

-----------------------------------------------------------------------------
(* Suppression and the end of an alarm, under SpecSched *)

\* the time-range rule as the specification words it
ClaimInRange(start, end, t) ==
    IF end > start THEN start <= t /\ t <= end ELSE t >= start \/ t <= end

ClaimRoutineHolds(r, t) ==
    ClaimInRange(r.start_hour * 60 + r.start_minute, r.end_hour * 60 + r.end_minute, t)

ClaimAlarmHolds(a, t) ==
    /\ a.start_hour * 60 + a.start_minute <= t
    /\ t <= a.wake_hour * 60 + a.wake_minute

ValidTick == lastOp' = "tick" /\ args'[1].valid
TickTime == args'[1].hour * 60 + args'[1].minute

NoRoutineApplied ==
    /\ routineActive' = routineActive /\ activeRoutineId' = activeRoutineId
    /\ isOn' = isOn /\ brightness' = brightness /\ mode' = mode

\* the stored routine with the id of the suppressed snapshot holds the time
SuppressedRoutineInWindow ==
    /\ routineSuppressed
    /\ \E i \in 1..Len(routines) :
          /\ routines[i].id = suppressedRoutine.id
          /\ routines[i].enabled
          /\ ClaimRoutineHolds(routines[i], TickTime)

\* C3 as stated: with routine A suppressed and the time inside A's window, a
\* tick applies no routine, in every storage order of A and an overlapping B
C3_AnyOrder == [][(ValidTick /\ SuppressedRoutineInWindow) => NoRoutineApplied]_vars

\* the first enabled stored routine holding the time is the suppressed one
SuppressedRoutineMatchesFirst ==
    /\ routineSuppressed
    /\ ClaimRoutineHolds(suppressedRoutine, TickTime)
    /\ \E i \in 1..Len(routines) :
          /\ routines[i].id = suppressedRoutine.id
          /\ routines[i].enabled
          /\ ClaimRoutineHolds(routines[i], TickTime)
          /\ \A j \in 1..(i - 1) :
                ~(routines[j].enabled /\ ClaimRoutineHolds(routines[j], TickTime))

\* C3 amended: with routine A suppressed, the time inside the window of the
\* suppressed snapshot, and A the first enabled routine in storage order whose
\* window holds the time, the tick applies no routine, also when a routine B
\* stored after A holds the time
C3_FirstMatchSuppressed ==
    [][(ValidTick /\ SuppressedRoutineMatchesFirst) => (NoRoutineApplied /\ ~outApplied')]_vars

\* RoutineA suppressed and skipped at 10:02, where RoutineB stored after it
\* also holds the time
C3_Witness ==
    /\ lastOp = "tick" /\ args = <<Reading(10, 2)>>
    /\ routines = <<RoutineA, RoutineB>>
    /\ routineSuppressed /\ suppressedRoutine.id = RoutineA.id
    /\ "routine suppressed; skipping" \in outLog
    /\ ~routineActive

C4_RoutineSuppressionEnds ==
    (routineSuppressed /\ ~ClaimRoutineHolds(suppressedRoutine, TickTime)) => ~routineSuppressed'

C4_AlarmSuppressionEnds ==
    (/\ alarmSuppressed
     /\ ~ClaimInRange(suppressedAlarm.start_hour * 60 + suppressedAlarm.start_minute,
                      suppressedAlarm.wake_hour * 60 + suppressedAlarm.wake_minute, TickTime))
        => ~alarmSuppressed'

\* C4: when a routine or alarm suppression is active and a tick with a valid
\* reading finds the time outside the window of the suppressed snapshot, the
\* suppression flag is false when the tick finishes
C4_SuppressionEnds ==
    [][ValidTick => (C4_RoutineSuppressionEnds /\ C4_AlarmSuppressionEnds)]_vars

\* one tick ended a routine suppression and an alarm suppression
C4_Witness ==
    /\ lastOp = "tick"
    /\ {"routine suppression window ended", "alarm suppression window ended"} \subseteq outLog
    /\ ~routineSuppressed /\ ~alarmSuppressed

\* the running alarm is stored and the time is outside its window
ActiveAlarmCompleted ==
    /\ alarmActive
    /\ \E i \in 1..Len(alarms) : alarms[i].id = activeAlarmId
    /\ \A i \in 1..Len(alarms) :
          alarms[i].id = activeAlarmId => ~ClaimAlarmHolds(alarms[i], TickTime)

LockedIn == isOn' /\ brightness' = 15 /\ mode' = MODE_BOTH /\ ~alarmActive'

\* C5 as stated: when the running alarm's window no longer holds the time,
\* the next tick with a valid reading leaves on, 15, BOTH and alarmActive false
C5_AlwaysLocksIn == [][(ValidTick /\ ActiveAlarmCompleted) => LockedIn]_vars

NothingElseDue ==
    /\ ~routineActive
    /\ \A i \in 1..Len(routines) :
          ~(routines[i].enabled /\ ClaimRoutineHolds(routines[i], TickTime))
    /\ \A i \in 1..Len(alarms) :
          ~(alarms[i].enabled /\ ClaimAlarmHolds(alarms[i], TickTime))

\* C5 amended: when the running alarm's window no longer holds the time, no
\* routine is running, and no enabled routine and no enabled alarm holds the
\* time, the next tick with a valid reading leaves on, 15, BOTH and
\* alarmActive false, whatever the LampState was
C5_LocksInWhenNothingDue ==
    [][(ValidTick /\ ActiveAlarmCompleted /\ NothingElseDue) => (LockedIn /\ outApplied')]_vars

\* the tick at 10:07 ended AlarmX
C5_Witness ==
    /\ lastOp = "tick" /\ args = <<Reading(10, 7)>>
    /\ "alarm ended" \in outLog
    /\ isOn /\ brightness = 15 /\ mode = MODE_BOTH /\ ~alarmActive

-----------------------------------------------------------------------------
(* The button decoder on its own: loop() reads the clock and the button at
   each of its runs *)

MaxNow == 800
\* the time between two runs of loop(): inside the debounce time, past it,
\* half the grouping window, and past the grouping window
PollGaps == {20, 40, 300, 620}

InitClicks == Boot

ButtonPoll ==
    /\ \E gap \in PollGaps, pressed \in BOOLEAN :
          /\ now + gap <= MaxNow
          /\ handleButtonClicks(now + gap, pressed)
    /\ UNCHANGED opsDone

SpecClicks == InitClicks /\ [][ButtonPoll]_vars

ButtonRun == lastOp' = "button"
\* the run accepts a release
AcceptsRelease == lastClickReleaseTime' = args'[1]
Resolves(lines) == outLog' \cap GestureLines = lines
SilentFor(t) == ~AcceptsRelease /\ args'[1] - t > 600

\* three accepted releases within 600 ms of the first are never left pending
C6_TripleImmediate ==
    ~(Len(accepted) >= 3 /\ accepted[3] - accepted[1] <= 600)

C6_Double ==
    (/\ Len(accepted) = 2 /\ accepted[2] - accepted[1] < 600 /\ SilentFor(accepted[2]))
        => (Resolves({"Double click"}) /\ accepted' = <<>> /\ clickCount' = 0)

C6_Single ==
    (Len(accepted) = 1 /\ SilentFor(accepted[1]))
        => (Resolves({"Single click"}) /\ accepted' = <<>> /\ clickCount' = 0)

\* a Single or a Double is resolved only past 600 ms after the last accepted
\* release, a Triple on the third release needs no wait, and nothing is
\* resolved with no accepted release pending
C6_NoOther ==
    /\ (outLog' \cap {"Single click", "Double click"} # {}) =>
          (accepted # <<>> /\ SilentFor(accepted[Len(accepted)]))
    /\ (outLog' \cap GestureLines # {}) => (accepted # <<>>)
    /\ (Len(accepted) = 2 /\ AcceptsRelease /\ args'[1] - accepted[1] <= 600) =>
          (Resolves({"Triple click detected"}) /\ clickCount' = 0)

\* C6: two accepted releases less than 600 ms apart followed by silence
\* resolve as exactly one Double; three accepted releases within 600 ms of the
\* first resolve as Triple on the third release, with no wait; one accepted
\* release followed by more than 600 ms of silence resolves as exactly one
\* Single (silence: a run of the decoder later than 600 ms after the last
\* accepted release that accepts no release)
C6_GestureDecoding ==
    /\ [](C6_TripleImmediate)
    /\ [][ButtonRun => (C6_Double /\ C6_Single /\ C6_NoOther)]_vars

\* a Double was resolved from two releases
C6_Witness ==
    /\ lastOp = "button"
    /\ "Double click" \in outLog
    /\ mode = MODE_WARM
    /\ clickCount = 0

-----------------------------------------------------------------------------
(* The ids of the store, under SpecStore *)

UniqueIds(s) == \A i, j \in 1..Len(s) : s[i].id = s[j].id => i = j

\* C11: after any sequence of upserts, deletes and full syncs no two stored
\* routines share an id and no two stored alarms share an id
C11_UniqueIds == UniqueIds(routines) /\ UniqueIds(alarms)

-----------------------------------------------------------------------------
(* Routines before alarms, and the end of a routine, under SpecSched *)

\* an enabled routine that is not the suppressed one holds the time
UnsuppressedRoutineDue ==
    \E i \in 1..Len(routines) :
        /\ routines[i].enabled
        /\ ClaimRoutineHolds(routines[i], TickTime)
        /\ ~(routineSuppressed' /\ suppressedRoutine.id = routines[i].id)

\* the LampState is as it was or as an enabled routine holding the time sets it
LampFromRoutineOrKept ==
    \/ isOn' = isOn /\ brightness' = brightness /\ mode' = mode
    \/ \E i \in 1..Len(routines) :
          /\ routines[i].enabled /\ ClaimRoutineHolds(routines[i], TickTime)
          /\ isOn' /\ brightness' = routines[i].brightness /\ mode' = routines[i].mode

NoAlarmEvaluated ==
    /\ outLog' \cap {"alarm progress", "alarm ended", "alarm suppressed; skipping"} = {}
    /\ alarmActive' = alarmActive /\ activeAlarmId' = activeAlarmId
    /\ lastAlarmMinute' = lastAlarmMinute
    /\ LampFromRoutineOrKept

\* C12: in a tick in which an enabled, unsuppressed routine's window holds the
\* time no alarm is evaluated: the LampState is not set from an alarm ramp or
\* an alarm lock-in, and the alarm's markers are as they were
C12_RoutinePreemptsAlarm == [][(ValidTick /\ UnsuppressedRoutineDue) => NoAlarmEvaluated]_vars

\* RoutineLate was applied at 10:05 over the running ramp of AlarmX
C12_Witness ==
    /\ lastOp = "tick" /\ args = <<Reading(10, 5)>>
    /\ routines = <<RoutineLate>>
    /\ "applied routine" \in outLog
    /\ alarmActive /\ activeAlarmId = AlarmX.id
    /\ brightness = RoutineLate.brightness /\ mode = RoutineLate.mode

NoRoutineDue ==
    \A i \in 1..Len(routines) :
        ~(routines[i].enabled /\ ClaimRoutineHolds(routines[i], TickTime))

\* C13: a tick at which no enabled routine holds the time while a routine was
\* running sets routineActive false and activeRoutineId -1 and leaves isOn,
\* brightness and mode as they were
C13_RoutineEndKeepsLamp ==
    [][(ValidTick /\ routineActive /\ NoRoutineDue) =>
          /\ ~routineActive' /\ activeRoutineId' = -1
          /\ isOn' = isOn /\ brightness' = brightness /\ mode' = mode]_vars

\* RoutineA ended and the lamp keeps what RoutineA set, not what it had at boot
C13_Witness ==
    /\ lastOp = "tick" /\ "routine ended" \in outLog
    /\ ~routineActive /\ activeRoutineId = -1
    /\ isOn /\ brightness = RoutineA.brightness /\ mode = RoutineA.mode

-----------------------------------------------------------------------------
(* The remote state set, under Spec *)

StateSetRun == lastOp' = "state_set"
Commanded == args'[1]
ClaimClamp(v, lo, hi) == IF v < lo THEN lo ELSE IF v > hi THEN hi ELSE v

\* the on and mode fields are stored, and the output is that of the new state
\* when a value changed
StateSetApplied ==
    /\ Len(Commanded.mode) = 1 => mode' = ClaimClamp(Commanded.mode[1], 0, 2)
    /\ Len(Commanded.mode) = 0 => mode' = mode
    /\ Len(Commanded.on) = 1 => isOn' = Commanded.on[1]
    /\ Len(Commanded.on) = 0 => isOn' = isOn
    /\ Len(Commanded.brightness) = 0 => brightness' = brightness
    /\ <<isOn', brightness', mode'>> # <<isOn, brightness, mode>> =>
          (outApplied' /\ <<ch0', ch1'>> = applyOutput(isOn', brightness', mode'))

\* C14 as stated: a remote state set is applied whatever is active, and the
\* stored brightness is the commanded value clamped to 0..15, the stored mode
\* the commanded value clamped to 0..2
C14_StoredIsClamped ==
    [][StateSetRun =>
          /\ StateSetApplied
          /\ Len(Commanded.brightness) = 1 =>
                brightness' = ClaimClamp(Commanded.brightness[1], 0, 15)]_vars

\* C14 amended: a remote state set is applied whatever is active; the stored
\* mode is the commanded value clamped to 0..2 and the stored brightness is the
\* commanded value clamped to 0..15, raised to 1 when the lamp was on as the
\* message arrived
C14_StoredIsClampedAndFloored ==
    [][StateSetRun =>
          /\ StateSetApplied
          /\ Len(Commanded.brightness) = 1 =>
                brightness' = IF isOn /\ ClaimClamp(Commanded.brightness[1], 0, 15) < 1 THEN 1
                              ELSE ClaimClamp(Commanded.brightness[1], 0, 15)]_vars

\* brightness 9 and mode WHITE were stored and put out while RoutineA ran
C14_Witness ==
    /\ lastOp = "state_set" /\ args = <<StateSetMsg(<<9>>, <<1>>, <<>>, <<>>)>>
    /\ routineActive
    /\ brightness = 9 /\ mode = MODE_WHITE /\ outApplied

\* C15: once a remote state set has been processed, isOn implies
\* brightness >= 1, whatever fields the message carried and whatever the
\* LampState was
C15_OnImpliesFloor ==
    (/\ lastOp = "state_set"
     /\ Len(args[1].brightness) + Len(args[1].mode) + Len(args[1].on) > 0)
        => (isOn => brightness >= 1)

-----------------------------------------------------------------------------
(* The override among all inputs: ticks, gestures, remote messages and store
   operations over a store of two overlapping routines and an alarm *)

InitOverride ==
    /\ BootLamp /\ BootTrack /\ BootSupp /\ BootSun /\ BootClicks /\ BootOut /\ BootFn
    /\ opsDone = 0
    /\ routines = <<RoutineB, RoutineA>> /\ alarms = <<AlarmX>>

OverrideTick ==
    /\ \E reading \in {Reading(10, 0), Reading(10, 2), Reading(10, 5), Reading(10, 7)} :
           checkSchedule(reading)
    /\ UNCHANGED opsDone

OverrideClick == (\E clicks \in 1..3 : handleResolvedClicks(clicks)) /\ UNCHANGED opsDone

OverrideRotary == handleRotaryEncoder(16) /\ UNCHANGED opsDone

OverrideStateSet ==
    handleStateSet(StateSetMsg(<<9>>, <<1>>, <<FALSE>>, <<>>)) /\ UNCHANGED opsDone

OverrideSunSync ==
    /\ \E msg \in {SunSyncMsg(<<TRUE>>, <<>>), SunSyncMsg(<<FALSE>>, <<>>),
                   SunSyncMsg(<<FALSE>>, <<"hardware">>)} :
           handleSunSyncMessage(msg)
    /\ UNCHANGED opsDone

\* the three store messages: a routine and an alarm deleted, the routines replaced
OverrideStoreSync ==
    /\ \/ handleRoutineSync(DeleteDoc(<<RoutineB.id>>))
       \/ handleAlarmSync(DeleteDoc(<<AlarmX.id>>))
       \/ handleFullSync([routines |-> Array(<<>>), alarms |-> Absent])
    /\ UNCHANGED opsDone

SpecOverride ==
    InitOverride /\ [][OverrideTick \/ OverrideClick \/ OverrideRotary \/ OverrideStateSet \/ OverrideSunSync \/ OverrideStoreSync]_vars

TripleRun == lastOp' = "click" /\ args'[1] = 3

RoutineSnapshotTaken ==
    (routineActive /\ \E i \in 1..Len(routines) : routines[i].id = activeRoutineId) =>
        /\ routineSuppressed'
        /\ suppressedRoutine' \in {routines[i] : i \in 1..Len(routines)}
        /\ suppressedRoutine'.id = activeRoutineId

AlarmSnapshotTaken ==
    (alarmActive /\ \E i \in 1..Len(alarms) : alarms[i].id = activeAlarmId) =>
        /\ alarmSuppressed'
        /\ suppressedAlarm' \in {alarms[i] : i \in 1..Len(alarms)}
        /\ suppressedAlarm'.id = activeAlarmId

\* C16: after a resolved triple click routineActive, alarmActive and
\* sunSyncActive are false; a routine or alarm that was active and is stored
\* is the suppressed snapshot and its suppression flag is true; and
\* sunSyncDisabledByHardware is true when sun sync was active
C16_TripleClickOverrides ==
    [][TripleRun =>
          /\ ~routineActive' /\ ~alarmActive' /\ ~sunSyncActive'
          /\ RoutineSnapshotTaken /\ AlarmSnapshotTaken
          /\ sunSyncActive => sunSyncDisabledByHardware']_vars

\* a triple click suppressed the running RoutineA and disabled sun sync
C16_Witness ==
    /\ lastOp = "click" /\ args = <<3>>
    /\ routineSuppressed /\ suppressedRoutine = RoutineA
    /\ sunSyncDisabledByHardware /\ ~sunSyncActive /\ ~routineActive
    /\ sunSyncStateEvent \in outEvents

RoutineWindowOver == ValidTick /\ ~ClaimRoutineHolds(suppressedRoutine, TickTime)
AlarmWindowOver ==
    /\ ValidTick
    /\ ~ClaimInRange(suppressedAlarm.start_hour * 60 + suppressedAlarm.start_minute,
                     suppressedAlarm.wake_hour * 60 + suppressedAlarm.wake_minute, TickTime)

\* C17 as stated: a suppression flag goes from true to false only in a tick
\* at which the time is outside the window of the suppressed snapshot
C17_OnlyTimeClears ==
    [][/\ (routineSuppressed /\ ~routineSuppressed') => RoutineWindowOver
       /\ (alarmSuppressed /\ ~alarmSuppressed') => AlarmWindowOver]_vars

ActiveRoutineMissing ==
    TripleRun /\ routineActive /\ \A i \in 1..Len(routines) : routines[i].id # activeRoutineId
ActiveAlarmMissing ==
    TripleRun /\ alarmActive /\ \A i \in 1..Len(alarms) : alarms[i].id # activeAlarmId

\* C17 amended: a suppression flag goes from true to false only in a tick at
\* which the time is outside the window of the suppressed snapshot, or in a
\* triple click made while a routine (an alarm) is running whose id is no
\* longer stored; no other gesture, remote message or store operation clears it
C17_TimeOrMissingIdClears ==
    [][/\ (routineSuppressed /\ ~routineSuppressed') => (RoutineWindowOver \/ ActiveRoutineMissing)
       /\ (alarmSuppressed /\ ~alarmSuppressed') => (AlarmWindowOver \/ ActiveAlarmMissing)]_vars

\* the tick at 10:07 ended the suppression of AlarmX
C17_Witness ==
    /\ lastOp = "tick" /\ args = <<Reading(10, 7)>>
    /\ "alarm suppression window ended" \in outLog
    /\ ~alarmSuppressed /\ suppressedAlarm.id = AlarmX.id

-----------------------------------------------------------------------------
(* A day of the wall clock: getLocalTime is always available, the clock runs
   through every minute and checkSchedule runs at least once in each *)

\* the hour and minute getLocalTime reports at a minute of the day
clockReading(minuteOfDay) == Reading(minuteOfDay \div 60, minuteOfDay % 60)

\* an ordinary alarm; a routine over midnight and an alarm whose start is its
\* wake time; a routine whose end is its start.  opsDone is the minute of the
\* day, midnight at first
InitDay ==
    /\ BootLamp /\ BootTrack /\ BootSupp /\ BootSun /\ BootClicks /\ BootOut /\ BootFn
    /\ opsDone = 0
    /\ \E store \in {<<<<>>, <<AlarmX>>>>,
                     <<<<RoutineNight>>, <<Alarm(2, TRUE, 10, 4, 10, 4, 1)>>>>,
                     <<<<Routine(5, TRUE, 10, 0, 10, 0, 5, MODE_WARM)>>, <<>>>>} :
           routines = store[1] /\ alarms = store[2]

\* checkSchedule runs again in the same minute (advance 0) or for the first
\* time in the next (advance 1)
DayTick(advance) ==
    /\ opsDone' = (opsDone + advance) % (24 * 60)
    /\ checkSchedule(clockReading(opsDone'))

\* the user overrides a routine or an alarm that is running
DayTripleClick ==
    /\ routineActive \/ alarmActive
    /\ handleResolvedClicks(3)
    /\ UNCHANGED opsDone

\* loop() calls handleScheduleTick on every pass and the clock never stops
SpecDay ==
    /\ InitDay
    /\ [][(\E advance \in {0, 1} : DayTick(advance)) \/ DayTripleClick]_vars
    /\ WF_vars(DayTick(1))

\* the window start..end (minutes of the day) leaves out some minute of the day
WindowHasGap(start, end) == \E t \in 0..(24 * 60 - 1) : ~ClaimInRange(start, end, t)

\* the routines and alarms a suppression snapshot of the day can hold
DayRoutineSnapshots == {RoutineNight, Routine(5, TRUE, 10, 0, 10, 0, 5, MODE_WARM)}
DayAlarmSnapshots == {AlarmX, Alarm(2, TRUE, 10, 4, 10, 4, 1)}

RoutineSuppressionOf(r) == routineSuppressed /\ suppressedRoutine = r
AlarmSuppressionOf(a) == alarmSuppressed /\ suppressedAlarm = a

\* C18 as stated: under a clock that is always available and passes through
\* every minute with a tick in each, every suppression that becomes active
\* eventually ends, whatever accepted routine or alarm it was taken from
C18_EverySuppressionClears ==
    /\ \A r \in DayRoutineSnapshots : RoutineSuppressionOf(r) ~> ~RoutineSuppressionOf(r)
    /\ \A a \in DayAlarmSnapshots : AlarmSuppressionOf(a) ~> ~AlarmSuppressionOf(a)

RoutineSnapshotsWithGap ==
    {r \in DayRoutineSnapshots :
        WindowHasGap(r.start_hour * 60 + r.start_minute, r.end_hour * 60 + r.end_minute)}
AlarmSnapshotsWithGap ==
    {a \in DayAlarmSnapshots :
        WindowHasGap(a.start_hour * 60 + a.start_minute, a.wake_hour * 60 + a.wake_minute)}

\* C18 amended: under such a clock every suppression that becomes active
\* eventually ends, provided the window of the suppressed routine (start..end)
\* or alarm (start..wake), read as the time-range test reads it, leaves out at
\* least one minute of the day
C18_SuppressionWithGapClears ==
    /\ \A r \in RoutineSnapshotsWithGap : RoutineSuppressionOf(r) ~> ~RoutineSuppressionOf(r)
    /\ \A a \in AlarmSnapshotsWithGap : AlarmSuppressionOf(a) ~> ~AlarmSuppressionOf(a)

\* the tick at 00:01 ended the suppression of the routine over midnight
C18_Witness ==
    /\ lastOp = "tick" /\ args = <<Reading(0, 1)>>
    /\ "routine suppression window ended" \in outLog
    /\ ~routineSuppressed /\ suppressedRoutine.id = RoutineNight.id

-----------------------------------------------------------------------------
(* The five sync messages: the store messages of the store's runs, time_sync
   with and without a timestamp, sun_sync_state with and without "active" *)

SyncTimeSync ==
    /\ \E msg \in {[timestamp |-> <<86400000>>], [timestamp |-> <<>>]} : handleTimeSync(msg)
    /\ UNCHANGED opsDone

SyncSunSync == (\E msg \in SunSyncMsgs : handleSunSyncMessage(msg)) /\ UNCHANGED opsDone

SpecSync == InitStore /\ [][NextStore \/ SyncTimeSync \/ SyncSunSync]_vars

SyncOps == {"routine_sync", "alarm_sync", "full_sync", "time_sync", "sun_sync_state"}

\* C19: every routine_sync, alarm_sync, full_sync, time_sync and
\* sun_sync_state message, valid or not, produces exactly one sync response,
\* of the message's kind, carrying a success flag and a message text
C19_OneResponse ==
    lastOp \in SyncOps =>
        /\ Len(outResponses) = 1
        /\ DOMAIN outResponses[1] = {"type", "success", "message"}
        /\ outResponses[1].type =
               (IF lastOp = "sun_sync_state" THEN "sun_sync" ELSE lastOp) \o "_response"
        /\ outResponses[1].success \in BOOLEAN
        /\ outResponses[1].message # ""

\* a sun_sync_state message without "active" was answered with one failure
C19_Witness ==
    /\ lastOp = "sun_sync_state" /\ args = <<SunSyncMsg(<<>>, <<"app">>)>>
    /\ outResponses = <<[type |-> "sun_sync_response", success |-> FALSE,
                         message |-> "Invalid field: active"]>>

-----------------------------------------------------------------------------
(* Publishing the snapshot *)

\* the lamp's fields that sendStateUpdate publishes
SnapshotFields ==
    <<brightness, mode, isOn, routineActive, alarmActive, sunSyncActive,
      routineSuppressed, alarmSuppressed, sunSyncDisabledByHardware>>

\* C20: every handler step that changes a field of the published snapshot
\* publishes a state snapshot before it returns, unless it is a remote direct
\* state set
C20_ChangePublishes ==
    [][(SnapshotFields' # SnapshotFields /\ lastOp' # "state_set") => outPublished']_vars

-----------------------------------------------------------------------------
(* Failed store requests *)

StoreOps == {"routine_sync", "alarm_sync", "full_sync"}

\* the step is a store request answered with success = false
StoreRequestFailed ==
    /\ lastOp' \in StoreOps
    /\ Len(outResponses') = 1
    /\ ~outResponses'[1].success

\* C21: a sync request (routine or alarm upsert or delete, full sync) that is
\* answered with success = false leaves both collections of the schedule
\* store, and so their counts, exactly as they were
C21_FailureKeepsStore ==
    [][StoreRequestFailed => (routines' = routines /\ alarms' = alarms)]_vars

-----------------------------------------------------------------------------
(* A tick without a clock reading *)

\* C22: a schedule tick for which no valid clock reading is available changes
\* nothing: LampState, the outputs, the active markers and last-applied
\* minutes, the suppression flags and snapshots and the store are unchanged,
\* and no state snapshot is published
C22_NoReadingNoChange ==
    [][(lastOp' = "tick" /\ ~args'[1].valid) =>
          /\ UNCHANGED <<lampVars, trackVars, suppVars, storeVars, sunVars>>
          /\ ~outPublished' /\ ~outApplied']_vars

\* a tick without a reading came at midnight-like fields while RoutineNight
\* was stored and a suppression was on, and left both as they were
C22_Witness ==
    /\ lastOp = "tick" /\ args = <<NoReading>>
    /\ routines = <<RoutineOff, RoutineNight>>
    /\ ~routineActive /\ alarmSuppressed /\ ~outPublished

-----------------------------------------------------------------------------
(* Upsert in place *)

\* entry e holds exactly the values of the fields of object o
HoldsObject(e, o) == \A f \in DOMAIN e : e[f] = o[f][1]

\* the first index at which store s holds this id
FirstIndexOf(s, id) == CHOOSE k \in 1..Len(s) : s[k].id = id /\ \A j \in 1..(k - 1) : s[j].id # id

\* what an accepted upsert of object o does to store old, leaving new
UpsertedInPlace(old, new, o) ==
    /\ Len(new) = Len(old)
    /\ \A i \in 1..Len(old) :
          IF i = FirstIndexOf(old, o.id[1]) THEN HoldsObject(new[i], o) ELSE new[i] = old[i]
AppendedAtEnd(old, new, o) ==
    /\ Len(new) = Len(old) + 1
    /\ HoldsObject(new[Len(new)], o)
    /\ \A i \in 1..Len(old) : new[i] = old[i]

UpsertAnswer(old, new, o, capacity) ==
    IF o.id[1] \in IdsOf(old) THEN UpsertedInPlace(old, new, o) /\ outResponses'[1].success
    ELSE Len(old) < capacity => (AppendedAtEnd(old, new, o) /\ outResponses'[1].success)

\* C23: upserting an id that is already stored overwrites that entry in place
\* (same index, count unchanged) and succeeds even when the store is full;
\* upserting an id not stored appends it at the end whenever count < capacity
C23_UpsertInPlaceOrAppend ==
    [][/\ (/\ lastOp' = "routine_sync" /\ IsUpsert(args'[1])
           /\ ClaimValidRoutine(args'[1].data[1]))
          => UpsertAnswer(routines, routines', args'[1].data[1], 10) /\ alarms' = alarms
       /\ (/\ lastOp' = "alarm_sync" /\ IsUpsert(args'[1])
           /\ ClaimValidAlarm(args'[1].data[1]))
          => UpsertAnswer(alarms, alarms', args'[1].data[1], 5) /\ routines' = routines]_vars

\* the routine of id 9 was overwritten at index 10 of a store of 10
C23_Witness ==
    /\ lastOp = "routine_sync"
    /\ args = <<UpsertDoc(GoodRoutineObj(9, 2))>>
    /\ outResponses[1].success
    /\ Len(routines) = 10 /\ routines[10].id = 9 /\ routines[10].brightness = 15
    /\ routines[9] = SyncedRoutines(10)[9]

-----------------------------------------------------------------------------
(* The pin left by a hardware override of sun sync *)

\* C24: once sunSyncDisabledByHardware has been set, it stays true until a
\* sun-sync message with active = true arrives
C24_PinnedUntilReenabled ==
    [][(sunSyncDisabledByHardware /\ ~sunSyncDisabledByHardware') =>
          (lastOp' = "sun_sync_state" /\ args'[1].active = <<TRUE>>)]_vars

-----------------------------------------------------------------------------
(* Applying the routine that matches first *)

\* routines[i] is the first enabled stored routine whose window holds the time
\* of the tick
FirstDueRoutine(i) ==
    /\ routines[i].enabled /\ ClaimRoutineHolds(routines[i], TickTime)
    /\ \A j \in 1..(i - 1) : ~(routines[j].enabled /\ ClaimRoutineHolds(routines[j], TickTime))

\* routines[i] is not the suppressed routine once the tick has looked at the
\* suppression windows
NotSuppressedRoutine(i) == ~(routineSuppressed' /\ suppressedRoutine.id = routines[i].id)

LampSetFrom(r) == isOn' /\ brightness' = r.brightness /\ mode' = r.mode
LampKept == isOn' = isOn /\ brightness' = brightness /\ mode' = mode

\* C25: at a tick where enabled routine R is the first match and is not
\* suppressed, the LampState becomes on with R's brightness and mode if R was
\* not already the active routine or the clock minute differs from the last
\* applied minute, and is left untouched if R is active and the minute is the
\* same
C25_RoutineApply ==
    [][\A i \in 1..Len(routines) :
          (ValidTick /\ FirstDueRoutine(i) /\ NotSuppressedRoutine(i)) =>
              IF \/ ~(routineActive /\ activeRoutineId = routines[i].id)
                 \/ lastRoutineMinute # args'[1].minute
              THEN LampSetFrom(routines[i]) /\ outApplied'
              ELSE LampKept /\ ~outApplied']_vars

\* RoutineA running since 10:00, a remote command set brightness 9, and the
\* next tick of 10:00 left it
C25_Witness ==
    /\ lastOp = "tick" /\ args = <<Reading(10, 0)>>
    /\ routines = <<RoutineA, RoutineB>>
    /\ routineActive /\ activeRoutineId = RoutineA.id /\ lastRoutineMinute = 0
    /\ brightness = 9 /\ outLog = {}

-----------------------------------------------------------------------------
(* One routine per tick, the first in storage order *)

\* the tick applied a routine or changed the routine it marks active
RoutineAppliedByTick ==
    /\ ValidTick
    /\ \/ "applied routine" \in outLog'
       \/ activeRoutineId' \notin {activeRoutineId, -1}

\* C26: in each tick at most one routine is applied, and it is the
\* lowest-index enabled stored routine whose window holds the current time;
\* a disabled routine is never applied
C26_FirstMatchOnly ==
    [][RoutineAppliedByTick =>
          \E i \in 1..Len(routines) :
              /\ FirstDueRoutine(i)
              /\ routineActive' /\ activeRoutineId' = routines[i].id
              /\ LampSetFrom(routines[i])]_vars

\* at 10:02 both routines hold the time and RoutineB, stored first, was applied
C26_Witness ==
    /\ lastOp = "tick" /\ args = <<Reading(10, 2)>>
    /\ routines = <<RoutineB, RoutineA>>
    /\ "applied routine" \in outLog
    /\ activeRoutineId = RoutineB.id /\ brightness = RoutineB.brightness /\ mode = RoutineB.mode

-----------------------------------------------------------------------------
(* The alarm ramp *)

\* the tick applied the ramp of the stored alarm a
AlarmAppliedByTick(a) ==
    /\ ValidTick
    /\ "alarm progress" \in outLog'
    /\ activeAlarmId' = a.id

\* 15 * clamp(elapsed / duration, 0, 1) to the nearest integer, halves upwards
RoundedRamp(elapsed, duration) ==
    IF elapsed <= 0 THEN 0
    ELSE IF elapsed >= duration THEN 15
    ELSE (2 * 15 * elapsed + duration) \div (2 * duration)

\* C27: on every alarm apply brightness is 15 * clamp((now - start) /
\* duration_minutes, 0, 1) to the nearest integer, mode is BOTH and isOn is true
C27_AlarmRoundsToNearest ==
    [][\A i \in 1..Len(alarms) :
          AlarmAppliedByTick(alarms[i]) =>
              /\ brightness' = RoundedRamp(TickTime - (alarms[i].start_hour * 60
                                                        + alarms[i].start_minute),
                                           alarms[i].duration_minutes)
              /\ mode' = MODE_BOTH /\ isOn']_vars

\* C28: while the same alarm stays active and the clock moves forward inside
\* its window, the brightness set by successive alarm applies never decreases
C28_RampNeverFalls ==
    [][(/\ alarmActive /\ activeAlarmId' = activeAlarmId
        /\ ValidTick /\ "alarm progress" \in outLog')
          => brightness' >= brightness]_vars

\* the third apply of AlarmX, at its wake time, on the day's clock
C28_Witness ==
    /\ lastOp = "tick" /\ args = <<Reading(10, 6)>>
    /\ opsDone = 10 * 60 + 6
    /\ "alarm progress" \in outLog
    /\ alarmActive /\ activeAlarmId = AlarmX.id /\ lastAlarmMinute = 6
    /\ brightness = 15

-----------------------------------------------------------------------------
(* Routine and alarm at once *)

\* C29: routineActive and alarmActive are never both true
C29_NeverBothActive == ~(routineActive /\ alarmActive)

-----------------------------------------------------------------------------
(* An override followed through ticks and further triple clicks.  opsDone is
   0, or 1 + the id of a routine R that a triple click suppressed while no
   tick has since come at a time outside the window of R *)

HeldTick ==
    \E reading \in ClockReadings :
        /\ checkSchedule(reading)
        /\ opsDone' =
              IF /\ opsDone # 0 /\ reading.valid
                 /\ \A i \in 1..Len(routines) :
                       routines[i].id = opsDone - 1 =>
                           ~routineInTimeRange(routines[i], reading.hour * 60 + reading.minute)
              THEN 0 ELSE opsDone

HeldTripleClick ==
    /\ handleResolvedClicks(3)
    /\ opsDone' =
          IF opsDone = 0 /\ routineActive /\ findRoutineById(activeRoutineId) # 0
          THEN activeRoutineId + 1 ELSE opsDone

SpecHeld == InitSched /\ [][HeldTick \/ HeldTripleClick]_vars

\* the tick applied the routine whose override is followed
HeldRoutineApplied ==
    /\ ValidTick
    /\ "applied routine" \in outLog'
    /\ activeRoutineId' = opsDone - 1

\* C30: after a triple click suppresses the active routine R, no
\* tick applies R again until a tick at which the time is outside R's window,
\* whatever ticks and further triple clicks on other routines come between
C30_NoApplyUntilWindowLeft == [][opsDone # 0 => ~HeldRoutineApplied]_vars

-----------------------------------------------------------------------------
(* The override when the active id is no longer stored *)

RoutineIdStored(id) == \E i \in 1..Len(routines) : routines[i].id = id
AlarmIdStored(id) == \E i \in 1..Len(alarms) : alarms[i].id = id
TripleClickStep == lastOp' = "click" /\ args' = <<3>>
OverrideCompleted ==
    /\ UNCHANGED <<isOn, brightness, mode, storeVars>>
    /\ outPublished'
    /\ \E e \in outEvents' : e.type = "schedule_override_event"

\* C31: a triple click while a routine (an alarm) is active whose id is no
\* longer stored clears that suppression flag and the active markers, leaves
\* the store and the LampState alone, publishes the state and broadcasts the
\* override event
C31_MissingIdOverride ==
    [][TripleClickStep =>
          /\ (routineActive /\ ~RoutineIdStored(activeRoutineId)) =>
                 /\ ~routineSuppressed' /\ ~routineActive'
                 /\ activeRoutineId' = -1 /\ lastRoutineMinute' = -1
                 /\ OverrideCompleted
          /\ (alarmActive /\ ~AlarmIdStored(activeAlarmId)) =>
                 /\ ~alarmSuppressed' /\ ~alarmActive'
                 /\ activeAlarmId' = -1 /\ lastAlarmMinute' = -1
                 /\ OverrideCompleted]_vars

\* the override just ran on an active routine that had been deleted
C31_Witness ==
    /\ lastOp = "click" /\ args = <<3>>
    /\ "active routine ID not found" \in outLog
    /\ ~routineActive /\ ~routineSuppressed /\ outPublished

-----------------------------------------------------------------------------
(* The grouping timeout and the debounce time, under SpecClicks *)

\* C33: a pending group of 1 or 2 accepted releases is resolved as Single or
\* Double by the first run of the decoder that comes more than 600 ms after
\* the first release of the group and accepts no release
C33_AnchoredAtFirstRelease ==
    [][(/\ ButtonRun /\ ~AcceptsRelease
        /\ Len(accepted) \in {1, 2}
        /\ args'[1] - accepted[1] > MULTI_CLICK_WINDOW_MS)
          => (outLog' \cap GestureLines # {} /\ clickCount' = 0)]_vars

\* the run comes less than 35 ms after the last accepted transition
InsideDebounce == ButtonRun /\ lastChange > 0 /\ args'[1] - lastChange < DEBOUNCE_MS

\* C36: a run of the decoder less than 35 ms after the last accepted
\* transition accepts no transition, whatever the level it reads: the logical
\* level, the time of the last transition and the accepted releases stay, and
\* the pending count stays unless the grouping timeout resolves it in that run
C36_BounceRejected ==
    [][InsideDebounce =>
          /\ lastChange' = lastChange /\ prevPressed' = prevPressed
          /\ lastClickReleaseTime' = lastClickReleaseTime
          /\ firstClickTime' = firstClickTime
          /\ \/ clickCount' = clickCount
             \/ (clickCount' = 0 /\ outLog' \cap GestureLines # {})]_vars

\* the button read released 20 ms after an accepted press: rejected
C36_Witness ==
    /\ lastOp = "button" /\ args[2] = FALSE /\ prevPressed
    /\ lastChange > 0 /\ args[1] - lastChange = 20
    /\ clickCount = 1

-----------------------------------------------------------------------------
(* A release that comes after a triple click was resolved.  opsDone is 0,
   or 1 + the time of the first release of the group that the last gesture, a
   triple click, was resolved from while no release has been accepted since,
   or -1 while the group begun by a release accepted within 600 ms of that
   first release is pending *)

MaxLate == 1000

LatePoll ==
    \E gap \in {40, 620}, pressed \in BOOLEAN :
        /\ now + gap <= MaxLate
        /\ handleButtonClicks(now + gap, pressed)
        /\ opsDone' =
              IF "Triple click detected" \in outLog' THEN firstClickTime' + 1
              ELSE IF opsDone > 0 /\ lastClickReleaseTime' = now'
                   THEN (IF now' - (opsDone - 1) <= MULTI_CLICK_WINDOW_MS THEN -1 ELSE 0)
              ELSE IF opsDone = -1 /\ outLog' \cap GestureLines # {} THEN 0
              ELSE opsDone

SpecLate == InitClicks /\ [][LatePoll]_vars

\* C32: after a triple click has resolved, a release accepted within 600 ms
\* of the first release of its group produces no gesture and no LampState
\* change, neither in the run that accepts it nor when the group it begins
\* is resolved
C32_LateReleaseIgnored ==
    [][(\/ opsDone = -1
        \/ (/\ opsDone > 0 /\ AcceptsRelease
            /\ args'[1] - (opsDone - 1) <= MULTI_CLICK_WINDOW_MS))
          => (outLog' \cap GestureLines = {} /\ UNCHANGED <<isOn, brightness, mode>>)]_vars

-----------------------------------------------------------------------------
(* The rotary dial, under Spec *)

RotaryTarget(b, delta, on) ==
    LET lo == IF on THEN 1 ELSE 0
        sum == b + delta
    IN  IF sum > 15 THEN 15 ELSE IF sum < lo THEN lo ELSE sum

\* C34: with no routine, alarm or sun sync active, a rotary change of delta
\* steps leaves brightness = clamp(brightness + delta, lo, 15) with lo = 1
\* when the lamp is on and 0 when it is off, so never 0 while the lamp is on
C34_RotaryClamps ==
    [][(lastOp' = "rotary" /\ ~(routineActive \/ alarmActive \/ sunSyncActive)) =>
          /\ brightness' = RotaryTarget(brightness, args'[1], isOn)
          /\ isOn' = isOn
          /\ isOn' => brightness' >= 1]_vars

\* the dial turned far down while the lamp was on: brightness 1
C34_Witness ==
    /\ lastOp = "rotary" /\ args = <<-16>>
    /\ isOn /\ brightness = 1 /\ outApplied /\ outPublished

-----------------------------------------------------------------------------
(* Delete, under SpecStore *)

IsDelete(doc) == doc.action = <<"delete">>
\* new is old without one entry of this id, the others in their order
OneRemoved(old, new, id) ==
    \E i \in 1..Len(old) :
        /\ old[i].id = id
        /\ new = SubSeq(old, 1, i - 1) \o SubSeq(old, i + 1, Len(old))
DeleteAnswer(old, new, idField) ==
    /\ Len(outResponses') = 1
    /\ IF \E i \in 1..Len(old) : <<old[i].id>> = idField
       THEN /\ OneRemoved(old, new, idField[1])
            /\ Len(new) = Len(old) - 1
            /\ outResponses'[1].success
       ELSE new = old /\ ~outResponses'[1].success

\* C35: the delete of a stored id removes exactly one entry of that id,
\* leaves the count one lower and the other entries in their order, and is
\* answered success=true; the delete of an id that is not stored is answered
\* success=false and changes nothing; routines and alarms alike
C35_DeleteRemovesOne ==
    [][/\ (lastOp' = "routine_sync" /\ IsDelete(args'[1])) =>
            (DeleteAnswer(routines, routines', args'[1].id) /\ alarms' = alarms)
       /\ (lastOp' = "alarm_sync" /\ IsDelete(args'[1])) =>
            (DeleteAnswer(alarms, alarms', args'[1].id) /\ routines' = routines)]_vars

\* routine 0 was deleted from the full store: ids 1..9 remain in order
C35_Witness ==
    /\ lastOp = "routine_sync" /\ args = <<DeleteDoc(<<0>>)>>
    /\ outResponses[1].success
    /\ Len(routines) = MAX_ROUTINES - 1
    /\ \A i \in 1..Len(routines) : routines[i].id = i

-----------------------------------------------------------------------------
(* A full sync past the capacity, under SpecStore *)

\* C40: a full sync answered success=true has stored every routine item and
\* every alarm item of its batch, in batch order
C40_SuccessStoresAll ==
    (lastOp = "full_sync" /\ outResponses[1].success) =>
        /\ routines = [i \in 1..Len(BatchItems(args[1].routines)) |->
                          routineFromObj(BatchItems(args[1].routines)[i])]
        /\ alarms = [i \in 1..Len(BatchItems(args[1].alarms)) |->
                        alarmFromObj(BatchItems(args[1].alarms)[i])]

-----------------------------------------------------------------------------
(* The active routine after a tick, under SpecOverride *)

\* the store holds an enabled routine of the active id whose window holds
\* the time of the tick
ActiveRoutineDue ==
    \E i \in 1..Len(routines') :
        /\ routines'[i].enabled
        /\ routines'[i].id = activeRoutineId'
        /\ ClaimRoutineHolds(routines'[i], TickTime)

\* the first enabled routine whose window holds the time is the suppressed one
FirstDueIsSuppressed ==
    \E i \in 1..Len(routines) : FirstDueRoutine(i) /\ ~NotSuppressedRoutine(i)

\* C37: after every tick with a valid clock reading, routineActive implies
\* that the store holds an enabled routine whose id is activeRoutineId and
\* whose window contains the current time
C37_ActiveRoutineIsDue == [][(ValidTick /\ routineActive') => ActiveRoutineDue]_vars

\* C37 amended: the same after every tick with a valid clock reading at
\* which the first enabled routine whose window contains the time is not the
\* suppressed one
C37_ActiveRoutineIsDueUnlessSkipped ==
    [][(ValidTick /\ ~FirstDueIsSuppressed /\ routineActive') => ActiveRoutineDue]_vars

\* routine 1 was applied at 10:02 while routine 0 stays suppressed
C37_Witness ==
    /\ lastOp = "tick" /\ args = <<Reading(10, 2)>>
    /\ routineActive /\ activeRoutineId = 1
    /\ routineSuppressed /\ suppressedRoutine.id = 0
    /\ "applied routine" \in outLog

-----------------------------------------------------------------------------
(* The channels after every handler, under Spec *)

\* C38: at the end of every handler run the two channel values last written
\* are the output mapping of the current isOn, brightness and mode
C38_ChannelsFollowLampState ==
    /\ ch0 = applyOutput(isOn, brightness, mode)[1]
    /\ ch1 = applyOutput(isOn, brightness, mode)[2]

\* a double click moved the mode to warm: the white channel is off and the
\* warm channel carries the brightness
C38_Witness ==
    /\ lastOp = "click" /\ args = <<2>> /\ "Double click" \in outLog
    /\ isOn /\ mode = MODE_WARM /\ brightness = 9
    /\ ch0 = 6 /\ ch1 = PWM_OFF

-----------------------------------------------------------------------------
(* What the override leaves alone, under SpecOverride *)

\* C39: a triple-click override changes neither isOn, brightness or mode nor
\* the schedule store, whichever of routine, alarm and sun sync were active
C39_OverrideKeepsLampAndStore ==
    [][TripleClickStep => UNCHANGED <<isOn, brightness, mode, routines, alarms>>]_vars

\* the override ended a running alarm and sun sync at once
C39_Witness ==
    /\ lastOp = "click" /\ args = <<3>>
    /\ sunSyncStateEvent \in outEvents
    /\ alarmSuppressed /\ "blink" \in outLog
    /\ isOn /\ sunSyncDisabledByHardware

====
